---- MODULE Spec2Model ----
(***************************************************************************)
(* md-mcp retrieval core: the structural chunker (md_mcp/chunking.py), the *)
(* embedding index with its on-disk cache (md_mcp/semantic.py) and the     *)
(* hybrid merge.  Text is a sequence of one-character strings.             *)
(***************************************************************************)
EXTENDS Integers, Sequences, FiniteSets, TLC

VARIABLES
    \* ---- chunker (MarkdownChunker.chunk_markdown) ----
    content,          \* the document text handed to chunk_markdown
    max_chunk_size,   \* MarkdownChunker.max_chunk_size
    split,            \* the loop state of _split_by_headers at its return
    chunks,           \* the list chunk_markdown returned
    pc,               \* "start" before the call, "done" after it
    \* ---- embedding index (SemanticIndex) ----
    available,        \* SEMANTIC_AVAILABLE
    cache_dir,        \* the cache_dir the indexes are constructed with
    cache_file,       \* <cache_dir>/.md-mcp-embeddings.json on disk
    index,            \* the SemanticIndex objects, by name
    last,             \* the most recent call: arguments, state before, outcome
    calls,            \* number of calls made so far
    \* ---- hybrid search (MarkdownChunker.search_hybrid) ----
    search_args,      \* the arguments of the search_hybrid call
    snippets,         \* the list search_hybrid returned
    search_pc,        \* "start" before the call, "done" after it
    \* ---- keyword search (MarkdownChunker.search_chunks) ----
    keyword_snippets, \* the list search_chunks returned for the same arguments
    keyword_pc,       \* "start" before the call, "done" after it
    \* ---- lexical scoring (MarkdownChunker.calculate_relevance) ----
    relevance_args,   \* a query and two chunks that differ in their content only
    relevance,        \* the scores calculate_relevance returned for the two chunks
    relevance_pc,     \* "start" before the calls, "done" after them
    \* ---- snippets (MarkdownChunker.extract_snippet) ----
    snippet_args,     \* the chunk and the query handed to extract_snippet
    snippet,          \* the text extract_snippet returned
    snippet_pc,       \* "start" before the call, "done" after it
    \* ---- sessions that build over one cache file at the same time ----
    session,          \* by index: where its build_index stands, and its locals
    \* ---- serving session (create_markdown_server) ----
    server            \* the folder, the closure's caches and the tool calls so far

chunkVars == <<content, max_chunk_size, split, chunks, pc>>

indexVars == <<available, cache_dir, cache_file, index, last, calls>>

hybridVars == <<search_args, snippets, search_pc, keyword_snippets, keyword_pc>>

relevanceVars == <<relevance_args, relevance, relevance_pc>>

snippetVars == <<snippet_args, snippet, snippet_pc>>

vars == <<content, max_chunk_size, split, chunks, pc,
          available, cache_dir, cache_file, index, last, calls,
          search_args, snippets, search_pc, keyword_snippets, keyword_pc,
          relevance_args, relevance, relevance_pc,
          snippet_args, snippet, snippet_pc, session, server>>

----------------------------------------------------------------------------
(* Characters and Python's str operations *)

NL == "\n"
SP == " "

Whitespace == {SP, NL}

Str(s) == [i \in 1..Len(s) |-> s[i]]

Drop(s, n) == SubSeq(s, n + 1, Len(s))

Take(s, n) == SubSeq(s, 1, n)

StartsWith(s, p) == Len(p) <= Len(s) /\ Take(s, Len(p)) = p

\* str.__contains__: p occurs in s
Contains(s, p) == \E i \in 0..(Len(s) - Len(p)) : SubSeq(s, i + 1, i + Len(p)) = p

RECURSIVE LStrip(_)
LStrip(s) ==
    IF s # <<>> /\ Head(s) \in Whitespace THEN LStrip(Tail(s)) ELSE s

RECURSIVE RStrip(_)
RStrip(s) ==
    IF s # <<>> /\ s[Len(s)] \in Whitespace THEN RStrip(Take(s, Len(s) - 1)) ELSE s

\* str.strip()
Strip(s) == RStrip(LStrip(s))

RECURSIVE SplitAcc(_, _, _)
SplitAcc(s, sep, cur) ==
    IF s = <<>> THEN <<cur>>
    ELSE IF StartsWith(s, sep)
         THEN <<cur>> \o SplitAcc(Drop(s, Len(sep)), sep, <<>>)
         ELSE SplitAcc(Tail(s), sep, Append(cur, Head(s)))

\* str.split(sep): the pieces between the non-overlapping occurrences of sep,
\* scanned left to right
SplitStr(s, sep) == SplitAcc(s, sep, <<>>)

RECURSIVE JoinStr(_, _)
\* sep.join(parts)
JoinStr(parts, sep) ==
    IF parts = <<>> THEN <<>>
    ELSE IF Len(parts) = 1 THEN parts[1]
    ELSE parts[1] \o sep \o JoinStr(Tail(parts), sep)

RECURSIVE Concat(_)
Concat(parts) == IF parts = <<>> THEN <<>> ELSE Head(parts) \o Concat(Tail(parts))

----------------------------------------------------------------------------
(* _split_by_headers *)

MaxHeaderLevel == 6

RootPath == <<"(", "r", "o", "o", "t", ")">>

PathSep == <<SP, ">", SP>>

RECURSIVE LeadingHashes(_)
LeadingHashes(s) ==
    IF s # <<>> /\ Head(s) = "#" THEN 1 + LeadingHashes(Tail(s)) ELSE 0

NoMatch == [level |-> 0, text |-> <<>>]

\* re.match(r'^(#{1,6})\s+(.+)$', line.strip()): group(1) is the run of 1..6 '#',
\* which whitespace must follow; group(2) is what follows that whitespace.  The
\* result carries len(group(1)) and group(2).strip().
HeaderMatch(line) ==
    LET s == Strip(line)
        k == LeadingHashes(s)
    IN  IF k >= 1 /\ k <= MaxHeaderLevel /\ Len(s) > k /\ s[k + 1] \in Whitespace
        THEN [level |-> k, text |-> Strip(Drop(s, k))]
        ELSE NoMatch

RECURSIVE PopStackDeeperOnly(_, _)
\* (a variant that closes only the strictly deeper headers: '>' for '>=')
PopStackDeeperOnly(stack, level) ==
    IF stack # <<>> /\ stack[Len(stack)].level > level
    THEN PopStackDeeperOnly(Take(stack, Len(stack) - 1), level)
    ELSE stack

RECURSIVE PopStack(_, _)
\* while header_stack and header_stack[-1]['level'] >= level: header_stack.pop()
PopStack(stack, level) ==
    IF stack # <<>> /\ stack[Len(stack)].level >= level
    THEN PopStack(Take(stack, Len(stack) - 1), level)
    ELSE stack

\* ' > '.join([h['text'] for h in header_stack])
HeaderPath(stack) == JoinStr([i \in 1..Len(stack) |-> stack[i].text], PathSep)

SplitInit ==
    [sections |-> <<>>,
     current_section |-> [header_path |-> RootPath, content |-> <<>>,
                          start |-> 0, end |-> 0, level |-> 0],
     header_stack |-> <<>>,
     char_offset |-> 0]

\* if current_section['content'].strip(): set its end and append it
SaveSection(sections, section, offset) ==
    IF Strip(section.content) # <<>>
    THEN Append(sections, [section EXCEPT !.end = offset])
    ELSE sections

\* one iteration of "for line in lines"
SplitStep(st, line) ==
    LET m == HeaderMatch(line)
        line_length == Len(line) + 1
    IN  IF m # NoMatch
        THEN LET stack == Append(PopStack(st.header_stack, m.level),
                                 [level |-> m.level, text |-> m.text])
             IN  [sections |-> SaveSection(st.sections, st.current_section, st.char_offset),
                  current_section |-> [header_path |-> HeaderPath(stack),
                                       content |-> line \o <<NL>>,
                                       start |-> st.char_offset,
                                       end |-> st.char_offset,
                                       level |-> m.level],
                  header_stack |-> stack,
                  char_offset |-> st.char_offset + line_length]
        ELSE [st EXCEPT !.current_section.content = @ \o line \o <<NL>>,
                        !.char_offset = @ + line_length]

RECURSIVE SplitLoop(_, _)
SplitLoop(st, lines) ==
    IF lines = <<>> THEN st ELSE SplitLoop(SplitStep(st, Head(lines)), Tail(lines))

\* the state of _split_by_headers when it returns: the loop over
\* content.split('\n'), then the last section saved
SplitByHeaders(text) ==
    LET st == SplitLoop(SplitInit, SplitStr(text, <<NL>>))
    IN  [st EXCEPT !.sections = SaveSection(st.sections, st.current_section, st.char_offset)]

----------------------------------------------------------------------------
(* _chunk_by_paragraphs and chunk_markdown *)

ParaSep == <<NL, NL>>

\* Chunk(content, header_path, start_char, end_char, file_path)
MkChunk(text, header_path, start, end, file_path) ==
    [content |-> text, header_path |-> header_path, start_char |-> start,
     end_char |-> end, file_path |-> file_path]

\* if current_chunk.strip(): append Chunk(current_chunk.strip(), ...)
FlushChunk(out, current_chunk, header_path, chunk_start, char_offset, file_path) ==
    IF Strip(current_chunk) # <<>>
    THEN Append(out, MkChunk(Strip(current_chunk), header_path, chunk_start, char_offset,
                             file_path))
    ELSE out

\* (a variant that tests the buffer before the paragraph is added to it)
ExceedsChunkSizeBufferOnly(current_chunk, para_with_newline, max) ==
    Len(current_chunk) > max

\* len(current_chunk) + len(para_with_newline) > self.max_chunk_size
ExceedsChunkSize(current_chunk, para_with_newline, max) ==
    Len(current_chunk) + Len(para_with_newline) > max

ParaInit(start_offset) ==
    [out |-> <<>>, current_chunk |-> <<>>,
     chunk_start |-> start_offset, char_offset |-> start_offset]

\* one iteration of "for para in paragraphs"
ParaStep(ps, para, header_path, file_path, max) ==
    LET para_with_newline == para \o ParaSep
    IN  IF ExceedsChunkSize(ps.current_chunk, para_with_newline, max)
        THEN [out |-> FlushChunk(ps.out, ps.current_chunk, header_path,
                                 ps.chunk_start, ps.char_offset, file_path),
              current_chunk |-> para_with_newline,
              chunk_start |-> ps.char_offset,
              char_offset |-> ps.char_offset + Len(para_with_newline)]
        ELSE [ps EXCEPT !.current_chunk = @ \o para_with_newline,
                        !.char_offset = @ + Len(para_with_newline)]

RECURSIVE ParaLoop(_, _, _, _, _)
ParaLoop(ps, paragraphs, header_path, file_path, max) ==
    IF paragraphs = <<>> THEN ps
    ELSE ParaLoop(ParaStep(ps, Head(paragraphs), header_path, file_path, max),
                  Tail(paragraphs), header_path, file_path, max)

ChunkByParagraphs(text, header_path, start_offset, file_path, max) ==
    LET ps == ParaLoop(ParaInit(start_offset), SplitStr(text, ParaSep), header_path,
                       file_path, max)
    IN  FlushChunk(ps.out, ps.current_chunk, header_path, ps.chunk_start, ps.char_offset,
                   file_path)

\* (a variant that cuts an oversized section to the ceiling instead of splitting it)
SectionChunksTruncating(section, file_path, max) ==
    <<MkChunk(IF Len(section.content) <= max THEN section.content
              ELSE Take(section.content, max),
              section.header_path, section.start, section.end, file_path)>>

\* the body of "for section in sections" in chunk_markdown
SectionChunks(section, file_path, max) ==
    IF Len(section.content) <= max
    THEN <<MkChunk(section.content, section.header_path, section.start, section.end,
                   file_path)>>
    ELSE ChunkByParagraphs(section.content, section.header_path, section.start,
                           file_path, max)

RECURSIVE ChunkSections(_, _, _)
ChunkSections(sections, file_path, max) ==
    IF sections = <<>> THEN <<>>
    ELSE SectionChunks(Head(sections), file_path, max)
             \o ChunkSections(Tail(sections), file_path, max)

\* chunk_markdown(content, file_path)
ChunkMarkdownResult(text, file_path, max) ==
    ChunkSections(SplitByHeaders(text).sections, file_path, max)

----------------------------------------------------------------------------
(* Inputs of the chunker *)

MaxLines == 5

DefaultMaxChunkSize == 1000

\* file_path: str = ""
DefaultFilePath == ""

SmallChunkSize == 3

MidChunkSize == 8

ChunkSizes == {SmallChunkSize, MidChunkSize, DefaultMaxChunkSize}

LineVocab ==
    { <<>>,
      <<SP, "a">>,
      <<"#", SP, "a">>,
      <<"#", "#", SP, "b">>,
      <<"#", "#", SP, "d">>,
      <<"#", "#", "#", SP, "c">> }

RECURSIVE LineSeqs(_)
LineSeqs(n) ==
    IF n = 0 THEN {<<>>}
    ELSE LET shorter == LineSeqs(n - 1)
         IN  shorter \cup {Append(ls, l) : ls \in {x \in shorter : Len(x) = n - 1}, l \in LineVocab}

Documents == {JoinStr(ls, <<NL>>) : ls \in LineSeqs(MaxLines)}

InitChunker ==
    /\ content \in Documents
    /\ max_chunk_size \in ChunkSizes
    /\ split = SplitInit
    /\ chunks = <<>>
    /\ pc = "start"

\* chunker.chunk_markdown(content)
ChunkMarkdown ==
    /\ pc = "start"
    /\ split' = SplitByHeaders(content)
    /\ chunks' = ChunkSections(split'.sections, DefaultFilePath, max_chunk_size)
    /\ pc' = "done"
    /\ UNCHANGED <<content, max_chunk_size>>
    /\ UNCHANGED indexVars
    /\ UNCHANGED hybridVars
    /\ UNCHANGED relevanceVars
    /\ UNCHANGED snippetVars
    /\ UNCHANGED server
    /\ UNCHANGED session

----------------------------------------------------------------------------
(* Embedding vectors.  The model's output is a pair of integers; a similarity *)
(* is kept doubled, so that (s + 1) / 2 is the integer s + 1 in halves.       *)

Abs(x) == IF x < 0 THEN -x ELSE x

\* numpy.linalg.norm
Norm(v) == CHOOSE n \in 0..(Abs(v[1]) + Abs(v[2])) : n * n = v[1] * v[1] + v[2] * v[2]

\* if norm > 1e-10: arr = arr / norm
L2Normalize(v) ==
    IF Norm(v) > 0 THEN <<v[1] \div Norm(v), v[2] \div Norm(v)>> ELSE v

Dot(u, v) == u[1] * v[1] + u[2] * v[2]

Min(a, b) == IF a < b THEN a ELSE b

Max(a, b) == IF a > b THEN a ELSE b

\* (a variant without the clamp)
SimilarityUnclamped(q_arr, emb) == Dot(q_arr, emb) + 1

\* max(0.0, min(1.0, (score + 1.0) / 2.0)), in halves
Similarity(q_arr, emb) == Max(0, Min(2, Dot(q_arr, emb) + 1))

\* model.encode(text): the embedding model, a fixed function of the text
\* (here decided by its first character; the empty text embeds to zero)
Encode(text) ==
    IF text = <<>> THEN <<0, 0>>
    ELSE IF Head(text) = "a" THEN <<2, 0>>
    ELSE IF Head(text) = "b" THEN <<0, 3>>
    ELSE IF Head(text) = "c" THEN <<-1, 0>>
    ELSE <<0, -2>>

\* hashlib.sha256(text).hexdigest()[:16]: a digest of the text, taken to be
\* free of collisions on the texts of the model
ContentHash(text) == <<"sha256">> \o text

----------------------------------------------------------------------------
(* The cache: a dict in insertion order, and its JSON file *)

DictHas(d, k) == \E i \in 1..Len(d) : d[i][1] = k

DictGet(d, k) == d[CHOOSE i \in 1..Len(d) : d[i][1] = k][2]

\* d[k] = v
DictSet(d, k, v) ==
    IF DictHas(d, k)
    THEN [i \in 1..Len(d) |-> IF d[i][1] = k THEN <<k, v>> ELSE d[i]]
    ELSE Append(d, <<k, v>>)

None == "None"

FileOf(kind, entries) == [kind |-> kind, entries |-> entries]

\* json.dump(cache, f): one JSON object, the members in the dict's order
JsonDump(cache) == FileOf("object", cache)

RECURSIVE JsonLoadMembers(_, _)
\* json.load(f) of a JSON object: the members read into a dict one by one
JsonLoadMembers(members, d) ==
    IF members = <<>> THEN d
    ELSE JsonLoadMembers(Tail(members), DictSet(d, Head(members)[1], Head(members)[2]))

Loaded(status, cache, error) == [status |-> status, cache |-> cache, error |-> error]

\* (a variant that never reads the file)
LoadCacheIgnoringFile(dir, file) == Loaded("dict", <<>>, "none")

\* SemanticIndex._load_cache: {} when there is no cache_dir or no file, or when
\* open/json.load raises OSError or JSONDecodeError; any other exception leaves
\* the method, and whatever JSON value the file holds is returned as it is
LoadCache(dir, file) ==
    IF dir = None \/ file.kind = "missing" THEN Loaded("dict", <<>>, "none")
    ELSE IF file.kind = "unreadable" THEN Loaded("dict", <<>>, "none")
    ELSE IF file.kind = "malformed" THEN Loaded("dict", <<>>, "none")
    ELSE IF file.kind = "not_utf8" THEN Loaded("raise", <<>>, "UnicodeDecodeError")
    ELSE IF file.kind = "not_object" THEN Loaded("not_dict", <<>>, "none")
    ELSE Loaded("dict", JsonLoadMembers(file.entries, <<>>), "none")

Saved(file, error) == [file |-> file, error |-> error]

\* SemanticIndex._save_cache: nothing without a cache_dir; otherwise the file
\* is opened for writing and the whole cache dumped.  write is what the disk
\* does: "ok", "open_error" (open raises OSError, the file is untouched) or
\* "write_error" (the write raises OSError after open truncated the file)
SaveCache(dir, file, cache, write) ==
    IF dir = None THEN Saved(file, "none")
    ELSE IF write = "open_error" THEN Saved(file, "OSError")
    ELSE IF write = "write_error" THEN Saved(FileOf("malformed", <<>>), "OSError")
    ELSE Saved(JsonDump(cache), "none")

----------------------------------------------------------------------------
(* SemanticIndex *)

\* SemanticIndex.__init__; built_over and persisted are history: the chunk
\* list _embeddings was last filled from, and the file the last build wrote
\* (NoFile when it wrote none)
NoFile == FileOf("none", <<>>)

NewIndex ==
    [_model |-> None, _embeddings |-> <<>>, _chunk_hashes |-> <<>>,
     built_over |-> <<>>, persisted |-> NoFile]

Outcome(obj, file, outcome, count, results, error) ==
    [obj |-> obj, file |-> file, outcome |-> outcome, count |-> count,
     results |-> results, error |-> error]

\* (a variant that forgets to reset _chunk_hashes)
ClearIndexEmbeddingsOnly(obj) ==
    [obj EXCEPT !._embeddings = <<>>, !.built_over = <<>>, !.persisted = NoFile]

\* self._embeddings = []; self._chunk_hashes = []
ClearIndex(obj) ==
    [obj EXCEPT !._embeddings = <<>>, !._chunk_hashes = <<>>,
                !.built_over = <<>>, !.persisted = NoFile]

\* _get_model after the availability test: the model is loaded if it is not yet
LoadModel(obj) == [obj EXCEPT !._model = "loaded"]

\* (a variant that answers by loading the model)
IsAvailableCallLoading(obj, avail) ==
    [obj |-> IF avail THEN LoadModel(obj) ELSE obj, value |-> avail]

\* SemanticIndex.is_available()
IsAvailableCall(obj, avail) == [obj |-> obj, value |-> avail]

RECURSIVE EmbedMissing(_, _, _, _)
\* for i, vec in zip(missing_indices, vectors): cache[hashes[i]] = normalized vec
EmbedMissing(cache, missing_indices, chunk_list, hashes) ==
    IF missing_indices = <<>> THEN cache
    ELSE LET i == Head(missing_indices)
         IN  EmbedMissing(DictSet(cache, hashes[i], L2Normalize(Encode(chunk_list[i].content))),
                          Tail(missing_indices), chunk_list, hashes)

\* (a variant that embeds every chunk again)
MissingIndicesAll(hashes, cache) == [i \in 1..Len(hashes) |-> i]

\* [i for i, h in enumerate(hashes) if h not in cache]
MissingIndices(hashes, cache) ==
    SelectSeq([i \in 1..Len(hashes) |-> i], LAMBDA i : ~DictHas(cache, hashes[i]))

\* SemanticIndex.build_index(chunks)
BuildIndexCall(obj, avail, dir, file, chunk_list, write) ==
    IF chunk_list = <<>>
    THEN Outcome(ClearIndex(obj), file, "returned", 0, <<>>, "none")
    ELSE IF ~avail
    THEN Outcome(obj, file, "raised", 0, <<>>, "RuntimeError")
    ELSE
    LET loaded == LoadCache(dir, file)
    IN  IF loaded.status = "raise"
        THEN Outcome(LoadModel(obj), file, "raised", 0, <<>>, loaded.error)
        ELSE IF loaded.status = "not_dict"
        THEN Outcome(ClearIndex(LoadModel(obj)), file, "raised", 0, <<>>, "TypeError")
        ELSE
        LET hashes == [i \in 1..Len(chunk_list) |-> ContentHash(chunk_list[i].content)]
            missing_indices == MissingIndices(hashes, loaded.cache)
            cache == EmbedMissing(loaded.cache, missing_indices, chunk_list, hashes)
            new_count == Len(missing_indices)
            saved == SaveCache(dir, file, cache, write)
            built == [LoadModel(obj) EXCEPT
                        !._embeddings = [i \in 1..Len(hashes) |->
                                            <<hashes[i], DictGet(cache, hashes[i])>>],
                        !._chunk_hashes = hashes,
                        !.built_over = chunk_list,
                        !.persisted = IF saved.error = "none" /\ dir # None
                                      THEN saved.file ELSE NoFile]
        IN  IF saved.error # "none"
            THEN Outcome(built, saved.file, "raised", 0, <<>>, saved.error)
            ELSE Outcome(built, saved.file, "returned", new_count, <<>>, "none")

RECURSIVE InsertByScoreAscending(_, _)
\* (a variant that sorts without reverse=True)
InsertByScoreAscending(rs, r) ==
    IF rs = <<>> THEN <<r>>
    ELSE IF Head(rs).score <= r.score
         THEN <<Head(rs)>> \o InsertByScoreAscending(Tail(rs), r)
    ELSE <<r>> \o rs

RECURSIVE InsertByScore(_, _)
\* the place list.sort(key=score, reverse=True) gives r among rs, which are
\* already in that order: after every entry whose score is not smaller
InsertByScore(rs, r) ==
    IF rs = <<>> THEN <<r>>
    ELSE IF Head(rs).score >= r.score THEN <<Head(rs)>> \o InsertByScore(Tail(rs), r)
    ELSE <<r>> \o rs

RECURSIVE SortByScore(_)
\* results.sort(key=lambda x: x[1], reverse=True): descending and stable
SortByScore(rs) ==
    IF rs = <<>> THEN <<>>
    ELSE InsertByScore(SortByScore(Take(rs, Len(rs) - 1)), rs[Len(rs)])

\* results[:top_k], for top_k >= 0
FirstK(rs, top_k) == Take(rs, Min(top_k, Len(rs)))

\* (a variant that tests the chunk list only)
NothingToSearchChunksOnly(obj, chunk_list) == chunk_list = <<>>

\* if not self._embeddings or not chunks: return []
NothingToSearch(obj, chunk_list) == obj._embeddings = <<>> \/ chunk_list = <<>>

\* (a variant without the test of the chunk list and without the break: it
\* indexes the chunk list past its end)
SearchCallUnguarded(obj, avail, file, query, chunk_list, top_k) ==
    IF obj._embeddings = <<>>
    THEN Outcome(obj, file, "returned", 0, <<>>, "none")
    ELSE IF ~avail
    THEN Outcome(obj, file, "raised", 0, <<>>, "RuntimeError")
    ELSE IF Len(obj._embeddings) > Len(chunk_list)
    THEN Outcome(LoadModel(obj), file, "raised", 0, <<>>, "IndexError")
    ELSE
    LET q_arr == L2Normalize(Encode(query))
        results == [i \in 1..Len(obj._embeddings) |->
                       [chunk |-> chunk_list[i],
                        score |-> Similarity(q_arr, obj._embeddings[i][2])]]
    IN  Outcome(LoadModel(obj), file, "returned", 0,
                FirstK(SortByScore(results), top_k), "none")

\* SemanticIndex.search(query, chunks, top_k)
SearchCall(obj, avail, file, query, chunk_list, top_k) ==
    IF NothingToSearch(obj, chunk_list)
    THEN Outcome(obj, file, "returned", 0, <<>>, "none")
    ELSE IF ~avail
    THEN Outcome(obj, file, "raised", 0, <<>>, "RuntimeError")
    ELSE
    LET q_arr == L2Normalize(Encode(query))
        n == Min(Len(obj._embeddings), Len(chunk_list))
        results == [i \in 1..n |->
                       [chunk |-> chunk_list[i],
                        score |-> Similarity(q_arr, obj._embeddings[i][2])]]
    IN  Outcome(LoadModel(obj), file, "returned", 0,
                FirstK(SortByScore(results), top_k), "none")

----------------------------------------------------------------------------
(* Lexical relevance and snippets.  A lexical score is kept in tenths. *)

UpperCase == <<"A", "B", "C", "D">>
LowerCase == <<"a", "b", "c", "d">>

LowerChar(ch) ==
    IF \E k \in 1..Len(UpperCase) : UpperCase[k] = ch
    THEN LowerCase[CHOOSE k \in 1..Len(UpperCase) : UpperCase[k] = ch]
    ELSE ch

\* str.lower()
Lower(s) == [i \in 1..Len(s) |-> LowerChar(s[i])]

RECURSIVE CountOccurrences(_, _)
\* str.count(p): the non-overlapping occurrences of p, scanned left to right
CountOccurrences(s, p) ==
    IF p = <<>> THEN Len(s) + 1
    ELSE IF Len(s) < Len(p) THEN 0
    ELSE IF StartsWith(s, p) THEN 1 + CountOccurrences(Drop(s, Len(p)), p)
    ELSE CountOccurrences(Tail(s), p)

RECURSIVE WordsAcc(_, _)
WordsAcc(s, cur) ==
    IF s = <<>> THEN (IF cur = <<>> THEN <<>> ELSE <<cur>>)
    ELSE IF Head(s) \in Whitespace
         THEN (IF cur = <<>> THEN <<>> ELSE <<cur>>) \o WordsAcc(Tail(s), <<>>)
         ELSE WordsAcc(Tail(s), Append(cur, Head(s)))

\* str.split(): the runs of non-whitespace characters
Words(s) == WordsAcc(s, <<>>)

\* the unit of a lexical score: 0.1
ScoreUnit == 10

PhraseBonus == 20
KeywordBonus == 10
OccurrenceBonus == 1
PositionBonus == 5
EarlyChars == 1000
MinWordLength == 3

RECURSIVE KeywordScoreAnyLength(_, _)
\* (a variant without the test of the word's length)
KeywordScoreAnyLength(query_words, header_lower) ==
    IF query_words = <<>> THEN 0
    ELSE (IF Contains(header_lower, Head(query_words)) THEN KeywordBonus ELSE 0)
         + KeywordScoreAnyLength(Tail(query_words), header_lower)

RECURSIVE KeywordScore(_, _)
\* for word in query_words: if len(word) > 3 and word in header_lower: score += 1.0
KeywordScore(query_words, header_lower) ==
    IF query_words = <<>> THEN 0
    ELSE (IF Len(Head(query_words)) > MinWordLength /\ Contains(header_lower, Head(query_words))
          THEN KeywordBonus ELSE 0)
         + KeywordScore(Tail(query_words), header_lower)

\* (a variant that counts the query in the content as it is written)
CalculateRelevanceCaseSensitive(chunk, query) ==
    LET header_lower == Lower(chunk.header_path)
    IN  (IF Contains(header_lower, Lower(query))
         THEN PhraseBonus
         ELSE KeywordScore(Words(Lower(query)), header_lower))
        + CountOccurrences(chunk.content, query) * OccurrenceBonus
        + (IF chunk.start_char < EarlyChars THEN PositionBonus ELSE 0)

\* calculate_relevance(chunk, query), in tenths
CalculateRelevance(chunk, query) ==
    LET query_lower == Lower(query)
        header_lower == Lower(chunk.header_path)
        content_lower == Lower(chunk.content)
    IN  (IF Contains(header_lower, query_lower)
         THEN PhraseBonus
         ELSE KeywordScore(Words(query_lower), header_lower))
        + CountOccurrences(content_lower, query_lower) * OccurrenceBonus
        + (IF chunk.start_char < EarlyChars THEN PositionBonus ELSE 0)

ContextLines == 2
FallbackLines == 5

Ellipsis == <<".", ".", ".">>

\* (a variant that compares the line as it is written)
MatchingLinesCaseSensitive(lines, query_lower) ==
    {idx \in 1..Len(lines) : Contains(lines[idx], query_lower)}

\* the indexes of the lines that contain the query
MatchingLines(lines, query_lower) ==
    {idx \in 1..Len(lines) : Contains(Lower(lines[idx]), query_lower)}

SetMin(S) == CHOOSE x \in S : \A y \in S : x <= y

\* extract_snippet(chunk, query, context_lines); line indexes count from 1
ExtractSnippet(chunk, query, context_lines) ==
    LET query_lower == Lower(query)
        lines == SplitStr(chunk.content, <<NL>>)
        matching == MatchingLines(lines, query_lower)
    IN  IF matching = {}
        THEN JoinStr(Take(lines, Min(FallbackLines, Len(lines))), <<NL>>) \o Ellipsis
        ELSE
        LET match_line_idx == SetMin(matching)
            first == Max(1, match_line_idx - context_lines)
            end == Min(Len(lines), match_line_idx + context_lines)
            window == SubSeq(lines, first, end)
            before == IF first > 1 THEN <<Ellipsis>> ELSE <<>>
            after == IF end < Len(lines) THEN <<Ellipsis>> ELSE <<>>
        IN  JoinStr(before \o window \o after, <<NL>>)

----------------------------------------------------------------------------
(* search_hybrid.  A merged score is an exact fraction num / den, den > 0; *)
(* vector_weight and text_weight are given in tenths.                      *)

Frac(n, d) == [num |-> n, den |-> d]

FracGt(x, y) == x.num * y.den > y.num * x.den

FracGeq(x, y) == x.num * y.den >= y.num * x.den

FracEq(x, y) == x.num * y.den = y.num * x.den

FracAdd(x, y) == Frac(x.num * y.den + y.num * x.den, x.den * y.den)

\* weight * x, the weight in tenths
Weighted(weight, x) == Frac(weight * x.num, ScoreUnit * x.den)

RECURSIVE SeqMax(_)
\* max_kw: the largest score, starting from 0.0
SeqMax(scores) ==
    IF scores = <<>> THEN 0
    ELSE Max(SeqMax(Take(scores, Len(scores) - 1)), scores[Len(scores)])

RawKeywordScores(chunk_list, query) ==
    [i \in 1..Len(chunk_list) |-> CalculateRelevance(chunk_list[i], query)]

\* keyword_scores after "if max_kw > 0: keyword_scores = {k: v / max_kw ...}"
KeywordScores(chunk_list, query) ==
    LET raw == RawKeywordScores(chunk_list, query)
        max_kw == SeqMax(raw)
    IN  [i \in 1..Len(chunk_list) |->
            IF max_kw > 0 THEN Frac(raw[i], max_kw) ELSE Frac(raw[i], ScoreUnit)]

NoScoring ==
    [chunk |-> MkChunk(<<>>, <<>>, 0, 0, DefaultFilePath),
     other |-> MkChunk(<<>>, <<>>, 0, 0, DefaultFilePath), query |-> <<>>]

IdleRelevance ==
    /\ relevance_args = NoScoring
    /\ relevance = [chunk |-> 0, other |-> 0]
    /\ relevance_pc = "idle"

NoSnippet == [chunk |-> MkChunk(<<>>, RootPath, 0, 0, DefaultFilePath), query |-> <<>>]

IdleSnippet ==
    /\ snippet_args = NoSnippet
    /\ snippet = <<>>
    /\ snippet_pc = "idle"

\* a chunk object: the Chunk and its identity
Obj(oid, chunk) ==
    [oid |-> oid, content |-> chunk.content, header_path |-> chunk.header_path,
     start_char |-> chunk.start_char, end_char |-> chunk.end_char,
     file_path |-> chunk.file_path]

\* (a variant that matches by content: "c.content == chunk.content")
PositionsOfByContent(chunk_list, chunk) ==
    {i \in 1..Len(chunk_list) : chunk_list[i].content = chunk.content}

\* for i, c in enumerate(chunks): if c is chunk: ...; break
PositionsOf(chunk_list, chunk) == {i \in 1..Len(chunk_list) : chunk_list[i].oid = chunk.oid}

RECURSIVE ChunkToScore(_, _)
\* chunk_to_score: position -> score, a later result replacing an earlier one
ChunkToScore(sem_results, chunk_list) ==
    IF sem_results = <<>> THEN <<>>
    ELSE LET r == sem_results[Len(sem_results)]
             earlier == ChunkToScore(Take(sem_results, Len(sem_results) - 1), chunk_list)
             hits == PositionsOf(chunk_list, r.chunk)
         IN  IF hits = {} THEN earlier
             ELSE (SetMin(hits) :> Frac(r.score, 2)) @@ earlier

\* semantic_index is not None and semantic_index.is_available()
\*     and semantic_index._embeddings
UsesSemantic(semantic_index, avail, indexes) ==
    /\ semantic_index # None
    /\ avail
    /\ indexes[semantic_index]._embeddings # <<>>

\* (a variant that always takes the weighted sum)
CombinedAlwaysWeighted(has_semantic, sem_score, kw_score, vector_weight, text_weight) ==
    FracAdd(Weighted(vector_weight, sem_score), Weighted(text_weight, kw_score))

\* if semantic_scores: combined = vector_weight * sem_score + text_weight * kw_score
\* else: combined = kw_score
Combined(has_semantic, sem_score, kw_score, vector_weight, text_weight) ==
    IF has_semantic
    THEN FracAdd(Weighted(vector_weight, sem_score), Weighted(text_weight, kw_score))
    ELSE kw_score

\* combined > 0.01
SignalThreshold == Frac(1, 100)

\* (a variant that looks at the score only)
HasSignalScoreOnly(combined, chunk, query) == FracGt(combined, SignalThreshold)

\* (a variant that looks at the content only)
HasSignalContentOnly(combined, chunk, query) ==
    Contains(Lower(chunk.content), Lower(query))

\* if combined > 0.01 or query_lower in chunk.content.lower()
HasSignal(combined, chunk, query) ==
    FracGt(combined, SignalThreshold) \/ Contains(Lower(chunk.content), Lower(query))

\* SearchSnippet(...); pos records the position the chunk had in the list
MkSnippet(chunk, query, combined, i) ==
    [file_path |-> chunk.file_path, header_path |-> chunk.header_path,
     snippet |-> ExtractSnippet(chunk, query, ContextLines),
     full_chunk |-> chunk.content, match_score |-> combined,
     start_char |-> chunk.start_char, end_char |-> chunk.end_char, pos |-> i]

RECURSIVE InsertByMatchScoreAscending(_, _)
\* (a variant that sorts without reverse=True)
InsertByMatchScoreAscending(rs, r) ==
    IF rs = <<>> THEN <<r>>
    ELSE IF FracGeq(r.match_score, Head(rs).match_score)
         THEN <<Head(rs)>> \o InsertByMatchScoreAscending(Tail(rs), r)
         ELSE <<r>> \o rs

RECURSIVE InsertByMatchScore(_, _)
InsertByMatchScore(rs, r) ==
    IF rs = <<>> THEN <<r>>
    ELSE IF FracGeq(Head(rs).match_score, r.match_score)
         THEN <<Head(rs)>> \o InsertByMatchScore(Tail(rs), r)
         ELSE <<r>> \o rs

RECURSIVE SortByMatchScore(_)
\* results.sort(key=lambda x: x.match_score, reverse=True): descending and stable
SortByMatchScore(rs) ==
    IF rs = <<>> THEN <<>>
    ELSE InsertByMatchScore(SortByMatchScore(Take(rs, Len(rs) - 1)), rs[Len(rs)])

RECURSIVE MergeScores(_, _, _, _, _, _)
\* the merge loop over positions i..len(chunks)
MergeScores(i, a, keyword_scores, semantic_scores, vector_weight, text_weight) ==
    IF i > Len(a.chunks) THEN <<>>
    ELSE LET chunk == a.chunks[i]
             kw_score == keyword_scores[i]
             sem_score == IF i \in DOMAIN semantic_scores THEN semantic_scores[i]
                          ELSE Frac(0, 1)
             combined == Combined(DOMAIN semantic_scores # {}, sem_score, kw_score,
                                  vector_weight, text_weight)
         IN  (IF HasSignal(combined, chunk, a.query)
              THEN <<MkSnippet(chunk, a.query, combined, i)>> ELSE <<>>)
             \o MergeScores(i + 1, a, keyword_scores, semantic_scores,
                            vector_weight, text_weight)

\* search_hybrid(chunks, query, semantic_index, max_results, vector_weight,
\* text_weight): the snippets returned and the indexes as the call leaves them
SearchHybridCall(a, avail, indexes, file) ==
    LET keyword_scores == KeywordScores(a.chunks, a.query)
        uses == UsesSemantic(a.semantic_index, avail, indexes)
        out == SearchCall(indexes[a.semantic_index], avail, file, a.query, a.chunks,
                          Len(a.chunks))
        semantic_scores == IF uses THEN ChunkToScore(out.results, a.chunks) ELSE <<>>
        results == MergeScores(1, a, keyword_scores, semantic_scores,
                               a.vector_weight, a.text_weight)
    IN  [snippets |-> FirstK(SortByMatchScore(results), a.max_results),
         indexes |-> IF uses THEN [indexes EXCEPT ![a.semantic_index] = out.obj]
                     ELSE indexes]

NoSearch ==
    [chunks |-> <<>>, query |-> <<>>, semantic_index |-> None, max_results |-> 0,
     vector_weight |-> 0, text_weight |-> 0]

RECURSIVE KeywordMatchesCaseSensitive(_, _, _)
\* (a variant that compares the content and the query as they are written)
KeywordMatchesCaseSensitive(i, chunk_list, query) ==
    IF i > Len(chunk_list) THEN <<>>
    ELSE LET chunk == chunk_list[i]
         IN  (IF Contains(chunk.content, query)
              THEN <<MkSnippet(chunk, query,
                               Frac(CalculateRelevance(chunk, query), ScoreUnit), i)>>
              ELSE <<>>)
             \o KeywordMatchesCaseSensitive(i + 1, chunk_list, query)

RECURSIVE KeywordMatches(_, _, _)
\* the loop of search_chunks over positions i..len(chunks); match_score is
\* the lexical score, written as a fraction of tenths
KeywordMatches(i, chunk_list, query) ==
    IF i > Len(chunk_list) THEN <<>>
    ELSE LET chunk == chunk_list[i]
         IN  (IF Contains(Lower(chunk.content), Lower(query))
              THEN <<MkSnippet(chunk, query,
                               Frac(CalculateRelevance(chunk, query), ScoreUnit), i)>>
              ELSE <<>>)
             \o KeywordMatches(i + 1, chunk_list, query)

\* search_chunks(chunks, query, max_results)
SearchChunksCall(chunk_list, query, max_results) ==
    FirstK(SortByMatchScore(KeywordMatches(1, chunk_list, query)), max_results)

IdleHybrid ==
    /\ search_args = NoSearch
    /\ snippets = <<>>
    /\ search_pc = "idle"
    /\ keyword_snippets = <<>>
    /\ keyword_pc = "idle"

----------------------------------------------------------------------------
(* Inputs of the embedding index *)

MaxCalls == 2

DefaultTopK == 10

IndexNames == {"idx", "idx2"}

ChunkPool ==
    { MkChunk(<<"a">>, RootPath, 0, 2, "doc.md"),
      MkChunk(<<"b">>, <<"b">>, 2, 6, "doc.md") }

\* chunk lists are no longer than the pool they are drawn from
MaxChunks == Cardinality(ChunkPool)

RECURSIVE ChunkLists(_)
ChunkLists(n) ==
    IF n = 0 THEN {<<>>}
    ELSE LET shorter == ChunkLists(n - 1)
         IN  shorter \cup {Append(cs, c) : cs \in {x \in shorter : Len(x) = n - 1}, c \in ChunkPool}

Queries == { <<"a">>, <<"c">> }

TopKs == {1, DefaultTopK}

\* an entry left by an earlier run with another model: not of unit length
StaleEntry == <<ContentHash(<<"a">>), <<3, 0>>>>

InitialFiles ==
    { FileOf("missing", <<>>), FileOf("unreadable", <<>>), FileOf("not_utf8", <<>>),
      FileOf("malformed", <<>>), FileOf("not_object", <<>>),
      FileOf("object", <<>>), FileOf("object", <<StaleEntry>>) }

WriteOutcomes == {"ok", "open_error", "write_error"}

NoCall ==
    [op |-> "none", idx |-> "none", chunks |-> <<>>, query |-> <<>>, top_k |-> 0,
     write |-> "ok", pre |-> NewIndex, pre_file |-> FileOf("missing", <<>>),
     outcome |-> "none", count |-> 0, results |-> <<>>, error |-> "none"]

Call(op, i, chunk_list, query, top_k, write, out) ==
    [op |-> op, idx |-> i, chunks |-> chunk_list, query |-> query, top_k |-> top_k,
     write |-> write, pre |-> index[i], pre_file |-> cache_file,
     outcome |-> out.outcome, count |-> out.count, results |-> out.results,
     error |-> out.error]

NoSession == [pc |-> "idle", chunks |-> <<>>, seen |-> NoFile, cache |-> <<>>]

IdleSessions == session = [i \in IndexNames |-> NoSession]

\* create_markdown_server: an empty markdown_files list and an empty
\* file_chunks dict; scans and chunked count the calls of scanner.scan() and of
\* chunk_markdown per file
NewServer(folder) ==
    [folder |-> folder, markdown_files |-> <<>>, file_chunks |-> [f \in {} |-> <<>>],
     scans |-> 0, chunked |-> [f \in folder |-> 0], calls |-> 0,
     tool |-> "none", outcome |-> "none"]

IdleServer == server = NewServer({})

InitIndex ==
    /\ available \in BOOLEAN
    /\ cache_dir \in {None, "dir"}
    /\ cache_file \in (IF cache_dir = None THEN {FileOf("missing", <<>>)} ELSE InitialFiles)
    /\ index = [i \in IndexNames |-> NewIndex]
    /\ last = NoCall
    /\ calls = 0

IdleIndex ==
    /\ available = FALSE
    /\ cache_dir = None
    /\ cache_file = FileOf("missing", <<>>)
    /\ index = [i \in IndexNames |-> NewIndex]
    /\ last = NoCall
    /\ calls = 0

IdleChunker ==
    /\ content = <<>>
    /\ max_chunk_size = DefaultMaxChunkSize
    /\ split = SplitInit
    /\ chunks = <<>>
    /\ pc = "idle"

\* index[i].build_index(chunk_list)
BuildIndex(i, chunk_list, write) ==
    /\ calls < MaxCalls
    /\ cache_dir = None => write = "ok"
    /\ LET out == BuildIndexCall(index[i], available, cache_dir, cache_file, chunk_list, write)
       IN  /\ index' = [index EXCEPT ![i] = out.obj]
           /\ cache_file' = out.file
           /\ last' = Call("build_index", i, chunk_list, <<>>, 0, write, out)
    /\ calls' = calls + 1
    /\ UNCHANGED <<available, cache_dir>>
    /\ UNCHANGED chunkVars
    /\ UNCHANGED hybridVars
    /\ UNCHANGED relevanceVars
    /\ UNCHANGED snippetVars
    /\ UNCHANGED server
    /\ UNCHANGED session

\* index[i].search(query, chunk_list, top_k)
Search(i, query, chunk_list, top_k) ==
    /\ calls < MaxCalls
    /\ LET out == SearchCall(index[i], available, cache_file, query, chunk_list, top_k)
       IN  /\ index' = [index EXCEPT ![i] = out.obj]
           /\ last' = Call("search", i, chunk_list, query, top_k, "ok", out)
    /\ calls' = calls + 1
    /\ UNCHANGED <<available, cache_dir, cache_file>>
    /\ UNCHANGED chunkVars
    /\ UNCHANGED hybridVars
    /\ UNCHANGED relevanceVars
    /\ UNCHANGED snippetVars
    /\ UNCHANGED server
    /\ UNCHANGED session

\* index[i].is_available(); the value returned is kept as the one result
IsAvailable(i) ==
    /\ calls < MaxCalls
    /\ LET out == IsAvailableCall(index[i], available)
       IN  /\ index' = [index EXCEPT ![i] = out.obj]
           /\ last' = Call("is_available", i, <<>>, <<>>, 0, "ok",
                           Outcome(out.obj, cache_file, "returned", 0, <<out.value>>, "none"))
    /\ calls' = calls + 1
    /\ UNCHANGED <<available, cache_dir, cache_file>>
    /\ UNCHANGED chunkVars
    /\ UNCHANGED hybridVars
    /\ UNCHANGED relevanceVars
    /\ UNCHANGED snippetVars
    /\ UNCHANGED server
    /\ UNCHANGED session

NextIndex ==
    \/ \E i \in IndexNames, cs \in ChunkLists(MaxChunks), w \in WriteOutcomes :
           BuildIndex(i, cs, w)
    \/ \E i \in IndexNames : IsAvailable(i)
    \/ \E i \in IndexNames, q \in Queries, cs \in ChunkLists(MaxChunks), k \in TopKs :
           Search(i, q, cs, k)

InitIndexSpec ==
    IdleChunker /\ InitIndex /\ IdleHybrid /\ IdleRelevance /\ IdleSnippet /\ IdleSessions /\ IdleServer

\* build_index and search called on two indexes that share one cache file
SpecIndex == InitIndexSpec /\ [][NextIndex]_vars

----------------------------------------------------------------------------
(* Sessions building over one cache file at the same time.  Each session owns
   one SemanticIndex and calls build_index once; its call is taken in the
   steps at which it touches the file: the read in _load_cache, the open(path,
   "w") in _save_cache, which empties the file, and the json.dump up to the
   close. *)

\* the files the sessions may find when they start: none, or a complete one
SessionInitialFiles ==
    { FileOf("missing", <<>>), FileOf("object", <<>>), FileOf("object", <<StaleEntry>>) }

InitSessions ==
    /\ available = TRUE
    /\ cache_dir = "dir"
    /\ cache_file \in SessionInitialFiles
    /\ index = [i \in IndexNames |-> NewIndex]
    /\ last = NoCall
    /\ calls = 0
    /\ session \in [IndexNames ->
                      {[pc |-> "load", chunks |-> cs, seen |-> NoFile, cache |-> <<>>] :
                           cs \in ChunkLists(MaxChunks) \ {<<>>}}]

\* an empty file, as open(path, "w") leaves it: no JSON document
Truncated == FileOf("malformed", <<>>)

\* build_index from its start to the end of the index loop: _get_model,
\* _load_cache, the embedding of the missing chunks, the index lists
SessionLoad(i) ==
    /\ session[i].pc = "load"
    /\ LET loaded == LoadCache(cache_dir, cache_file)
           chunk_list == session[i].chunks
           hashes == [k \in 1..Len(chunk_list) |-> ContentHash(chunk_list[k].content)]
           start == IF loaded.status = "dict" THEN loaded.cache ELSE <<>>
           cache == EmbedMissing(start, MissingIndices(hashes, start), chunk_list, hashes)
       IN  IF loaded.status = "dict"
           THEN /\ index' = [index EXCEPT ![i] =
                                [LoadModel(index[i]) EXCEPT
                                    !._embeddings = [k \in 1..Len(hashes) |->
                                                        <<hashes[k], DictGet(cache, hashes[k])>>],
                                    !._chunk_hashes = hashes,
                                    !.built_over = chunk_list]]
                /\ session' = [session EXCEPT ![i].pc = "open", ![i].seen = cache_file,
                                              ![i].cache = cache]
           ELSE /\ index' = [index EXCEPT ![i] = LoadModel(index[i])]
                /\ session' = [session EXCEPT ![i].pc = "raised", ![i].seen = cache_file]
    /\ UNCHANGED <<available, cache_dir, cache_file, last, calls>>
    /\ UNCHANGED chunkVars
    /\ UNCHANGED hybridVars
    /\ UNCHANGED relevanceVars
    /\ UNCHANGED snippetVars
    /\ UNCHANGED server

\* _save_cache: open(path, "w", encoding="utf-8")
SessionOpen(i) ==
    /\ session[i].pc = "open"
    /\ cache_file' = Truncated
    /\ session' = [session EXCEPT ![i].pc = "write"]
    /\ UNCHANGED <<available, cache_dir, index, last, calls>>
    /\ UNCHANGED chunkVars
    /\ UNCHANGED hybridVars
    /\ UNCHANGED relevanceVars
    /\ UNCHANGED snippetVars
    /\ UNCHANGED server

\* what the file holds after a session wrote its JSON text from offset 0: the
\* text alone, unless another session wrote a longer text since this one opened
\* the file, whose tail then follows it (a text is the longer, the more members
\* it has)
Overwritten(file, cache) ==
    IF file.kind = "object" /\ Len(file.entries) > Len(cache)
    THEN FileOf("malformed", <<>>)
    ELSE JsonDump(cache)

\* _save_cache: json.dump(cache, f) and the close of the file
SessionWrite(i) ==
    /\ session[i].pc = "write"
    /\ cache_file' = Overwritten(cache_file, session[i].cache)
    /\ index' = [index EXCEPT ![i].persisted = cache_file']
    /\ session' = [session EXCEPT ![i].pc = "done"]
    /\ UNCHANGED <<available, cache_dir, last, calls>>
    /\ UNCHANGED chunkVars
    /\ UNCHANGED hybridVars
    /\ UNCHANGED relevanceVars
    /\ UNCHANGED snippetVars
    /\ UNCHANGED server

NextSessions ==
    \E i \in IndexNames : SessionLoad(i) \/ SessionOpen(i) \/ SessionWrite(i)

InitSessionsSpec ==
    IdleChunker /\ InitSessions /\ IdleHybrid /\ IdleRelevance /\ IdleSnippet /\ IdleServer

\* two sessions, one build_index each, their file steps interleaved
SpecSessions == InitSessionsSpec /\ [][NextSessions]_vars

----------------------------------------------------------------------------
(* The serving session of create_markdown_server: the tools, each with the
   scan, the loads and the chunking it triggers.  What a tool returns is kept
   as "returned" or "raised" only. *)

MaxToolCalls == 3

\* the markdown files a folder may hold, in the order rglob lists them
FileNames == <<"a.md", "b.md">>

FileContent ==
    [f \in {"a.md", "b.md"} |->
        IF f = "a.md" THEN <<"#", SP, "a", NL, "a">> ELSE <<"b">>]

Folders == SUBSET {"a.md", "b.md"}

Paths == {"a.md", "b.md", "missing.md"}

Strategies == {"keyword", "semantic", "other"}

\* scanner.scan(): the files of the folder
Scan(folder) == SelectSeq(FileNames, LAMBDA f : f \in folder)

\* (a variant that scans on every call)
EnsureScannedEveryCall(sv) ==
    [sv EXCEPT !.markdown_files = Scan(sv.folder), !.scans = @ + 1]

\* ensure_scanned(): if not markdown_files: markdown_files = scanner.scan()
EnsureScanned(sv) ==
    IF sv.markdown_files = <<>>
    THEN [sv EXCEPT !.markdown_files = Scan(sv.folder), !.scans = @ + 1]
    ELSE sv

\* get_chunks_for_file(md_file)
GetChunksForFile(sv, f) ==
    IF f \in DOMAIN sv.file_chunks THEN sv
    ELSE [sv EXCEPT
             !.file_chunks = (f :> ChunkMarkdownResult(FileContent[f], f, DefaultMaxChunkSize))
                                 @@ @,
             !.chunked[f] = @ + 1]

RECURSIVE ChunkAll(_, _)
\* for md_file in markdown_files: chunks = get_chunks_for_file(md_file)
ChunkAll(sv, files) ==
    IF files = <<>> THEN sv
    ELSE ChunkAll(GetChunksForFile(sv, Head(files)), Tail(files))

\* scanner.get_file_by_relative_path(path) finds a file
Found(sv, path) == \E k \in 1..Len(sv.markdown_files) : sv.markdown_files[k] = path

\* the closure's state after a tool call
Called(sv, tool, outcome) == [sv EXCEPT !.calls = @ + 1, !.tool = tool, !.outcome = outcome]

\* the resource md://<server>/<path>
ReadMarkdown(path) ==
    /\ server.calls < MaxToolCalls
    /\ LET sv == EnsureScanned(server)
       IN  server' = Called(sv, "read_markdown",
                            IF Found(sv, path) THEN "returned" ELSE "raised")
    /\ UNCHANGED <<chunkVars, indexVars, hybridVars, relevanceVars, snippetVars, session>>

\* read_file(file_path): a message when the file is not found
ReadFile(path) ==
    /\ server.calls < MaxToolCalls
    /\ server' = Called(EnsureScanned(server), "read_file", "returned")
    /\ UNCHANGED <<chunkVars, indexVars, hybridVars, relevanceVars, snippetVars, session>>

ListMarkdownFiles ==
    /\ server.calls < MaxToolCalls
    /\ server' = Called(EnsureScanned(server), "list_markdown_files", "returned")
    /\ UNCHANGED <<chunkVars, indexVars, hybridVars, relevanceVars, snippetVars, session>>

\* search_markdown(query, max_results, strategy): only "keyword" searches
SearchMarkdown(strategy) ==
    /\ server.calls < MaxToolCalls
    /\ LET sv == EnsureScanned(server)
       IN  server' = Called(IF strategy = "keyword" THEN ChunkAll(sv, sv.markdown_files)
                            ELSE sv,
                            "search_markdown", "returned")
    /\ UNCHANGED <<chunkVars, indexVars, hybridVars, relevanceVars, snippetVars, session>>

ReadFileSection(path) ==
    /\ server.calls < MaxToolCalls
    /\ LET sv == EnsureScanned(server)
       IN  server' = IF Found(sv, path)
                     THEN Called(GetChunksForFile(sv, path), "read_file_section", "returned")
                     ELSE Called(sv, "read_file_section", "raised")
    /\ UNCHANGED <<chunkVars, indexVars, hybridVars, relevanceVars, snippetVars, session>>

ListFileSections(path) ==
    /\ server.calls < MaxToolCalls
    /\ LET sv == EnsureScanned(server)
       IN  server' = IF Found(sv, path)
                     THEN Called(GetChunksForFile(sv, path), "list_file_sections", "returned")
                     ELSE Called(sv, "list_file_sections", "raised")
    /\ UNCHANGED <<chunkVars, indexVars, hybridVars, relevanceVars, snippetVars, session>>

\* get_markdown_stats(): total_kb / total_files divides by zero without files
GetMarkdownStats ==
    /\ server.calls < MaxToolCalls
    /\ LET sv == EnsureScanned(server)
       IN  server' = Called(ChunkAll(sv, sv.markdown_files), "get_markdown_stats",
                            IF sv.markdown_files = <<>> THEN "raised" ELSE "returned")
    /\ UNCHANGED <<chunkVars, indexVars, hybridVars, relevanceVars, snippetVars, session>>

InitServer == \E folder \in Folders : server = NewServer(folder)

NextServer ==
    \/ \E path \in Paths : ReadMarkdown(path)
    \/ \E path \in Paths : ReadFile(path)
    \/ ListMarkdownFiles
    \/ \E strategy \in Strategies : SearchMarkdown(strategy)
    \/ \E path \in Paths : ReadFileSection(path)
    \/ \E path \in Paths : ListFileSections(path)
    \/ GetMarkdownStats

InitServerSpec ==
    IdleChunker /\ IdleIndex /\ IdleHybrid /\ IdleRelevance /\ IdleSnippet /\ IdleSessions /\ InitServer

\* a serving session over a folder: any tool calls in any order
SpecServer == InitServerSpec /\ [][NextServer]_vars

----------------------------------------------------------------------------
(* Inputs of the hybrid search *)

MaxSearchChunks == 2

DefaultMaxResults == 10

DefaultVectorWeight == 7
DefaultTextWeight == 3

\* o1 and o3 are two objects with the same text under different headers;
\* o2 and o3 lie past the first 1000 characters of their file
SearchPool ==
    { Obj("o1", MkChunk(<<"a", SP, "b", NL, "A">>, <<"a", "b", "a", "b">>, 0, 7, "doc.md")),
      Obj("o2", MkChunk(<<"b">>, RootPath, 1000, 1003, "doc.md")),
      Obj("o3", MkChunk(<<"a", SP, "b", NL, "A">>, RootPath, 1003, 1010, "doc.md")) }

RECURSIVE SearchLists(_)
SearchLists(n) ==
    IF n = 0 THEN {<<>>}
    ELSE LET shorter == SearchLists(n - 1)
         IN  shorter \cup {Append(cs, c) : cs \in {x \in shorter : Len(x) = n - 1},
                                            c \in SearchPool}

SearchQueries ==
    { <<"a">>, <<"A">>, <<"c">>, <<"b", NL, "A">>, <<"a", "b", "a", "b", SP, "c">> }

MaxResults == {1, DefaultMaxResults}

Weights == { <<DefaultVectorWeight, DefaultTextWeight>>, <<ScoreUnit, 0>>, <<0, ScoreUnit>> }

\* the index handed to search_hybrid: fresh, or built (which needs the
\* embedding model) over some chunk list
BuiltIndexes(avail) ==
    {NewIndex} \cup
    (IF avail
     THEN {BuildIndexCall(NewIndex, TRUE, None, FileOf("missing", <<>>), cs, "ok").obj :
               cs \in SearchLists(MaxSearchChunks)}
     ELSE {})

InitHybrid ==
    /\ available \in BOOLEAN
    /\ cache_dir = None
    /\ cache_file = FileOf("missing", <<>>)
    /\ \E si \in {None} \cup {"idx"} :
         \E obj \in (IF si = None THEN {NewIndex} ELSE BuiltIndexes(available)) :
           \E cs \in SearchLists(MaxSearchChunks), q \in SearchQueries,
              k \in MaxResults, w \in Weights :
             /\ index = [i \in IndexNames |-> IF i = si THEN obj ELSE NewIndex]
             /\ search_args = [chunks |-> cs, query |-> q, semantic_index |-> si,
                               max_results |-> k, vector_weight |-> w[1],
                               text_weight |-> w[2]]
    /\ last = NoCall
    /\ calls = 0
    /\ snippets = <<>>
    /\ search_pc = "start"
    /\ keyword_snippets = <<>>
    /\ keyword_pc = "start"

\* chunker.search_hybrid(chunks, query, semantic_index, max_results,
\*                       vector_weight, text_weight)
SearchHybrid ==
    /\ search_pc = "start"
    /\ LET out == SearchHybridCall(search_args, available, index, cache_file)
       IN  /\ snippets' = out.snippets
           /\ index' = out.indexes
    /\ search_pc' = "done"
    /\ UNCHANGED <<available, cache_dir, cache_file, last, calls, search_args>>
    /\ UNCHANGED <<keyword_snippets, keyword_pc>>
    /\ UNCHANGED chunkVars
    /\ UNCHANGED relevanceVars
    /\ UNCHANGED snippetVars
    /\ UNCHANGED server
    /\ UNCHANGED session

\* chunker.search_chunks(chunks, query, max_results), on the same arguments
SearchChunks ==
    /\ keyword_pc = "start"
    /\ keyword_snippets' = SearchChunksCall(search_args.chunks, search_args.query,
                                            search_args.max_results)
    /\ keyword_pc' = "done"
    /\ UNCHANGED <<search_args, snippets, search_pc>>
    /\ UNCHANGED indexVars
    /\ UNCHANGED chunkVars
    /\ UNCHANGED relevanceVars
    /\ UNCHANGED snippetVars
    /\ UNCHANGED server
    /\ UNCHANGED session

NextHybrid ==
    \/ SearchHybrid
    \/ SearchChunks

InitHybridSpec ==
    IdleChunker /\ InitHybrid /\ IdleRelevance /\ IdleSnippet /\ IdleSessions /\ IdleServer

\* search_hybrid applied to every call of the bounded set
SpecHybrid == InitHybridSpec /\ [][NextHybrid]_vars

----------------------------------------------------------------------------
(* Inputs of the lexical scoring *)

MaxContentLen == 2

ContentAlphabet == {"a", "A", "b"}

RECURSIVE Texts(_)
\* the texts over ContentAlphabet of at most n characters
Texts(n) ==
    IF n = 0 THEN {<<>>}
    ELSE LET shorter == Texts(n - 1)
         IN  shorter \cup {Append(t, ch) : t \in {x \in shorter : Len(x) = n - 1},
                                            ch \in ContentAlphabet}

HeaderPaths == { RootPath, <<"a">>, <<"A", "b", "a", "b">> }

StartChars == {0, EarlyChars}

RelevanceQueries ==
    { <<>>, <<"a">>, <<"A">>, <<"a", "a">>, <<"a", "b", "a", "b", SP, "b">> }

InitRelevance ==
    /\ \E text \in Texts(MaxContentLen), other \in Texts(MaxContentLen),
          h \in HeaderPaths, start \in StartChars, q \in RelevanceQueries :
            relevance_args =
                [chunk |-> MkChunk(text, h, start, start + Len(text), DefaultFilePath),
                 other |-> MkChunk(other, h, start, start + Len(other), DefaultFilePath),
                 query |-> q]
    /\ relevance = [chunk |-> 0, other |-> 0]
    /\ relevance_pc = "start"

\* chunker.calculate_relevance(chunk, query) and
\* chunker.calculate_relevance(other, query)
ScoreChunks ==
    /\ relevance_pc = "start"
    /\ relevance' =
           [chunk |-> CalculateRelevance(relevance_args.chunk, relevance_args.query),
            other |-> CalculateRelevance(relevance_args.other, relevance_args.query)]
    /\ relevance_pc' = "done"
    /\ UNCHANGED relevance_args
    /\ UNCHANGED chunkVars
    /\ UNCHANGED indexVars
    /\ UNCHANGED hybridVars
    /\ UNCHANGED snippetVars
    /\ UNCHANGED session
    /\ UNCHANGED server

NextRelevance == ScoreChunks

InitRelevanceSpec ==
    IdleChunker /\ IdleIndex /\ IdleHybrid /\ InitRelevance /\ IdleSnippet /\ IdleSessions /\ IdleServer

\* calculate_relevance applied to every pair of chunks of the bounded set
SpecRelevance == InitRelevanceSpec /\ [][NextRelevance]_vars

----------------------------------------------------------------------------
(* Inputs of the keyword search *)

MaxKeywordChunks == 2

PhraseText == <<"a", "b", "a", "b", SP, "b", "a", "b", "a">>
SwappedText == <<"b", "a", "b", "a", SP, "a", "b", "a", "b">>

SixLines == <<"b", NL, "b", NL, "b", NL, "b", NL, "b", NL, "A">>

\* four chunks of one file: the first two hold the same text, the first under
\* a header that is that text and past the first 1000 characters, the second
\* under a header with the two words the other way round; the third has six
\* lines
KeywordPool ==
    { MkChunk(PhraseText, PhraseText, 1000, 1009, "doc.md"),
      MkChunk(PhraseText, SwappedText, 0, 9, "doc.md"),
      MkChunk(SixLines, RootPath, 9, 20, "doc.md"),
      MkChunk(<<"b">>, <<"a">>, 1009, 1010, "doc.md") }

RECURSIVE KeywordLists(_)
KeywordLists(n) ==
    IF n = 0 THEN {<<>>}
    ELSE LET shorter == KeywordLists(n - 1)
         IN  shorter \cup {Append(cs, c) : cs \in {x \in shorter : Len(x) = n - 1},
                                            c \in KeywordPool}

KeywordQueries ==
    { PhraseText, <<"a">>, <<"A">>, <<"B">>, <<"b", NL, "A">>, <<"c">> }

InitKeyword ==
    /\ \E cs \in KeywordLists(MaxKeywordChunks), q \in KeywordQueries, k \in MaxResults :
         search_args = [chunks |-> cs, query |-> q, semantic_index |-> None,
                        max_results |-> k, vector_weight |-> DefaultVectorWeight,
                        text_weight |-> DefaultTextWeight]
    /\ snippets = <<>>
    /\ search_pc = "idle"
    /\ keyword_snippets = <<>>
    /\ keyword_pc = "start"

NextKeyword == SearchChunks

InitKeywordSpec ==
    IdleChunker /\ IdleIndex /\ InitKeyword /\ IdleRelevance /\ IdleSnippet /\ IdleSessions /\ IdleServer

\* search_chunks applied to every call of the bounded set
SpecKeyword == InitKeywordSpec /\ [][NextKeyword]_vars

----------------------------------------------------------------------------
(* Inputs of the snippet extraction *)

MaxSnippetLines == 7

SnippetLineVocab == { <<"b">>, <<"A", SP, "b">> }

RECURSIVE SnippetLineSeqs(_)
\* the sequences of at most n lines
SnippetLineSeqs(n) ==
    IF n = 0 THEN {<<>>}
    ELSE LET shorter == SnippetLineSeqs(n - 1)
         IN  shorter \cup {Append(ls, l) : ls \in {x \in shorter : Len(x) = n - 1},
                                            l \in SnippetLineVocab}

\* the empty text and the texts of 1..MaxSnippetLines lines
SnippetTexts == {JoinStr(ls, <<NL>>) : ls \in SnippetLineSeqs(MaxSnippetLines)}

SnippetQueries ==
    { <<>>, <<"a">>, <<"a", SP, "B">>, <<"c">>, <<"b", NL, "A">> }

InitSnippet ==
    /\ \E text \in SnippetTexts, q \in SnippetQueries :
         snippet_args = [chunk |-> MkChunk(text, RootPath, 0, Len(text), "doc.md"),
                         query |-> q]
    /\ snippet = <<>>
    /\ snippet_pc = "start"

\* chunker.extract_snippet(chunk, query)
Extract ==
    /\ snippet_pc = "start"
    /\ snippet' = ExtractSnippet(snippet_args.chunk, snippet_args.query, ContextLines)
    /\ snippet_pc' = "done"
    /\ UNCHANGED snippet_args
    /\ UNCHANGED chunkVars
    /\ UNCHANGED indexVars
    /\ UNCHANGED hybridVars
    /\ UNCHANGED relevanceVars
    /\ UNCHANGED session
    /\ UNCHANGED server

NextSnippet == Extract

InitSnippetSpec ==
    IdleChunker /\ IdleIndex /\ IdleHybrid /\ IdleRelevance /\ InitSnippet /\ IdleSessions /\ IdleServer

\* extract_snippet applied to every chunk and query of the bounded sets
SpecSnippet == InitSnippetSpec /\ [][NextSnippet]_vars

----------------------------------------------------------------------------
(* Specifications *)

Init ==
    InitChunker /\ IdleIndex /\ IdleHybrid /\ IdleRelevance /\ IdleSnippet /\ IdleSessions /\ IdleServer

Next == ChunkMarkdown

\* chunk_markdown applied to every document of the bounded set
Spec == Init /\ [][Next]_vars

----------------------------------------------------------------------------
(* Properties of the chunker *)

ChunkContents == [i \in 1..Len(chunks) |-> chunks[i].content]

\* C1: every chunk is at most max_chunk_size characters long, unless it is a
\* single paragraph (its content holds no blank-line separator) that alone
\* exceeds max_chunk_size.
C1_ChunkSizeCeiling ==
    pc = "done" =>
        \A i \in 1..Len(chunks) :
            \/ Len(chunks[i].content) <= max_chunk_size
            \/ ~Contains(chunks[i].content, ParaSep)

\* a run in which one chunk packs two paragraphs under the ceiling and another
\* is a single paragraph over it
C1_Witness ==
    /\ pc = "done"
    /\ \E i \in 1..Len(chunks) :
           Contains(chunks[i].content, ParaSep) /\ Len(chunks[i].content) <= max_chunk_size
    /\ \E j \in 1..Len(chunks) : Len(chunks[j].content) > max_chunk_size

DocLines == SplitStr(content, <<NL>>)

\* header line j (hm[j] is the match of line j) is header line k itself or a
\* strict ancestor of it: no header after j up to k is as shallow as j
OpenAt(hm, j, k) ==
    /\ j <= k
    /\ hm[j] # NoMatch
    /\ \A m \in (j + 1)..k : hm[m] # NoMatch => hm[m].level > hm[j].level

RECURSIVE TitlesOpenAt(_, _, _)
TitlesOpenAt(hm, j, k) ==
    IF j > k THEN <<>>
    ELSE (IF OpenAt(hm, j, k) THEN <<hm[j].text>> ELSE <<>>) \o TitlesOpenAt(hm, j + 1, k)

\* the ' > '-joined titles of the strict ancestors of header line k, then its own
AncestorPath(hm, k) == JoinStr(TitlesOpenAt(hm, 1, k), PathSep)

RECURSIVE LineOffsets(_, _)
\* the position in the document of each of the lines, the first of them at p
LineOffsets(lines, p) ==
    IF lines = <<>> THEN <<>>
    ELSE <<p>> \o LineOffsets(Tail(lines), p + Len(Head(lines)) + 1)

\* the last header line at or before position p (0 when there is none)
EnclosingHeader(hm, offs, p) ==
    LET hs == {k \in 1..Len(hm) : hm[k] # NoMatch /\ offs[k] <= p}
    IN  IF hs = {} THEN 0 ELSE CHOOSE k \in hs : \A m \in hs : m <= k

StrictlyIncreasingLevels(stack) ==
    \A i \in 1..(Len(stack) - 1) : stack[i].level < stack[i + 1].level

\* C2: the header_path of every chunk is the ' > '-joined titles of the strict
\* ancestors of its enclosing header plus that header, and after every line read
\* the levels on the open-header stack are strictly increasing.
C2_HeaderPathIsAncestry ==
    pc = "done" =>
        LET lines == DocLines
            hm == [k \in 1..Len(lines) |-> HeaderMatch(lines[k])]
            offs == LineOffsets(lines, 0)
        IN  /\ \A i \in 1..Len(chunks) :
                   LET k == EnclosingHeader(hm, offs, chunks[i].start_char)
                   IN  chunks[i].header_path =
                           (IF k = 0 THEN RootPath ELSE AncestorPath(hm, k))
            /\ \A n \in 0..Len(lines) :
                   StrictlyIncreasingLevels(SplitLoop(SplitInit, Take(lines, n)).header_stack)

\* "# a, ## b, ### c, ## d": the chunk under d has path "a > d"
C2_Witness ==
    /\ pc = "done"
    /\ DocLines = << <<"#", SP, "a">>, <<"#", "#", SP, "b">>,
                     <<"#", "#", "#", SP, "c">>, <<"#", "#", SP, "d">> >>
    /\ Len(chunks) = 4
    /\ chunks[4].header_path = <<"a", SP, ">", SP, "d">>

AllWhitespace(s) == \A i \in 1..Len(s) : s[i] \in Whitespace

RECURSIVE DropNewlines(_)
DropNewlines(s) ==
    IF s = <<>> THEN <<>>
    ELSE (IF Head(s) = NL THEN <<>> ELSE <<Head(s)>>) \o DropNewlines(Tail(s))

RECURSIVE Covers(_, _)
\* text is the parts in order, with whitespace-only runs before, between and
\* after them
Covers(text, parts) ==
    IF parts = <<>> THEN AllWhitespace(text)
    ELSE \E k \in 0..Len(text) :
             /\ AllWhitespace(Take(text, k))
             /\ StartsWith(Drop(text, k), Head(parts))
             /\ Covers(Drop(text, k + Len(Head(parts))), Tail(parts))

C4_OffsetsWithinDocument ==
    pc = "done" =>
        \A i \in 1..Len(chunks) :
            /\ 0 <= chunks[i].start_char
            /\ chunks[i].start_char <= chunks[i].end_char
            /\ chunks[i].end_char <= Len(content)

NoHeaderLine == \A j \in 1..Len(DocLines) : HeaderMatch(DocLines[j]) = NoMatch

\* C16: a document with no header line yields only chunks whose header_path
\* is '(root)', exactly one chunk when the text fits max_chunk_size, and no
\* chunk at all when the text is empty or whitespace only.
C16_HeaderlessDocument ==
    (pc = "done" /\ NoHeaderLine) =>
        /\ \A i \in 1..Len(chunks) : chunks[i].header_path = RootPath
        /\ AllWhitespace(content) => chunks = <<>>
        /\ (~AllWhitespace(content) /\ Len(content) <= max_chunk_size)
               => Len(chunks) = 1

\* C30: the chunks are in document order and their ranges do not overlap: of
\* two consecutive chunks the later starts no earlier than the earlier ends,
\* also where a section split by paragraphs meets the next section; and no
\* chunk has empty or whitespace-only content.
C30_RangesInOrderAndContentNonBlank ==
    pc = "done" =>
        /\ \A k \in 1..(Len(chunks) - 1) : chunks[k + 1].start_char >= chunks[k].end_char
        /\ \A k \in 1..Len(chunks) : ~AllWhitespace(chunks[k].content)

----------------------------------------------------------------------------
(* Properties of the embedding index *)

SearchResults(obj, query, chunk_list, top_k) ==
    SearchCall(obj, available, cache_file, query, chunk_list, top_k).results

\* index i's last build returned and wrote the file that the call just made
\* found on disk, and was over the same chunk list
PersistedFor(i) ==
    /\ index[i].persisted # NoFile
    /\ index[i].persisted = last.pre_file
    /\ index[i].built_over = last.chunks

\* C5: once build_index has persisted its cache, a fresh index on the same
\* cache directory that builds over the identical chunk list embeds nothing new
\* (returns 0), holds one vector per chunk, and answers every query with the same
\* ranking and the same scores as the first index.
C5_CacheRoundTrip ==
    \A i \in IndexNames, j \in IndexNames :
        ( /\ i # j
          /\ last.op = "build_index" /\ last.idx = j /\ last.outcome = "returned"
          /\ last.pre = NewIndex
          /\ PersistedFor(i) )
        => /\ last.count = 0
           /\ Len(index[j]._embeddings) = Len(last.chunks)
           /\ \A q \in Queries, k \in TopKs :
                  SearchResults(index[j], q, last.chunks, k)
                      = SearchResults(index[i], q, last.chunks, k)

\* idx built two chunks and wrote the cache, then the fresh idx2 built the same
\* two chunks from that file
C5_Witness ==
    /\ last.op = "build_index" /\ last.idx = "idx2" /\ last.outcome = "returned"
    /\ last.pre = NewIndex
    /\ PersistedFor("idx")
    /\ Len(last.chunks) = 2
    /\ Len(SearchResults(index["idx2"], <<"a">>, last.chunks, DefaultTopK)) = 2

\* C6: search with a chunk list other than the one the index was last built
\* over returns an empty list.
C6_SearchOverOtherChunksIsEmpty ==
    (last.op = "search" /\ last.chunks # last.pre.built_over)
        => (last.outcome = "returned" /\ last.results = <<>>)

\* C7: search on an index that holds no vectors (never built, or built over an
\* empty list), or with an empty chunk list, returns [] without raising and
\* leaves the model slot as it was, whatever the query, top_k and backend.
C7_SearchUnbuiltOrEmpty ==
    (last.op = "search" /\ (last.pre._embeddings = <<>> \/ last.chunks = <<>>))
        => /\ last.outcome = "returned"
           /\ last.results = <<>>
           /\ index[last.idx]._model = last.pre._model

\* a search over two chunks on a never-built index, with no backend installed
C7_Witness ==
    /\ last.op = "search"
    /\ ~available
    /\ last.pre = NewIndex
    /\ Len(last.chunks) = 2
    /\ last.outcome = "returned"
    /\ index[last.idx]._model = None

\* the build reached _save_cache: chunks to embed, a backend, a cache that loaded
ReachedSave ==
    /\ last.op = "build_index"
    /\ last.chunks # <<>>
    /\ available
    /\ cache_dir # None
    /\ LoadCache(cache_dir, last.pre_file).status = "dict"

\* C8: a failure to write the cache file does not fail build_index: it returns
\* its count and the index holds one vector per chunk.
C8_WriteFailureDoesNotFailBuild ==
    (ReachedSave /\ last.write # "ok")
        => /\ last.outcome = "returned"
           /\ Len(index[last.idx]._embeddings) = Len(last.chunks)

CorruptKinds == {"missing", "unreadable", "not_utf8", "malformed", "not_object"}

\* C9: whatever the cache file is when build_index runs (missing, unreadable,
\* not UTF-8, malformed JSON, JSON that is no object), build_index does not
\* raise because of it, embeds every chunk and returns len(chunks).
C9_CorruptCacheIsEmptyCache ==
    ( /\ last.op = "build_index"
      /\ available
      /\ cache_dir # None
      /\ last.pre_file.kind \in CorruptKinds
      /\ last.write = "ok" )
        => (last.outcome = "returned" /\ last.count = Len(last.chunks))

\* the cache the call read at its start
CacheAtStart ==
    LET loaded == LoadCache(cache_dir, last.pre_file)
    IN  IF loaded.status = "dict" THEN loaded.cache ELSE <<>>

\* the positions of the call's chunks whose hash the cache did not hold
CacheMisses ==
    {i \in 1..Len(last.chunks) :
        ~DictHas(CacheAtStart, ContentHash(last.chunks[i].content))}

\* C12: build_index returns the number of chunks of the list whose content
\* hash was absent from the cache loaded at the start of the call; over an empty
\* list it returns 0, leaves the index empty and touches neither the model nor
\* the cache file.
C12_BuildReturnsCacheMisses ==
    /\ (last.op = "build_index" /\ last.outcome = "returned")
           => last.count = Cardinality(CacheMisses)
    /\ (last.op = "build_index" /\ last.chunks = <<>>)
           => /\ last.outcome = "returned"
              /\ last.count = 0
              /\ index[last.idx]._embeddings = <<>>
              /\ index[last.idx]._chunk_hashes = <<>>
              /\ index[last.idx]._model = last.pre._model
              /\ cache_file = last.pre_file

\* a build over two chunks found one of them in the cache file and returned 1
C12_Witness ==
    /\ last.op = "build_index" /\ last.outcome = "returned"
    /\ Len(last.chunks) = 2
    /\ last.pre_file.kind = "object"
    /\ last.pre_file.entries # <<>>
    /\ last.count = 1

\* (s + 1) / 2 for the query of the call and the vector stored at position i,
\* in halves
Remapped(i) == Dot(L2Normalize(Encode(last.query)), last.pre._embeddings[i][2]) + 1

Clamped(x) == IF x < 0 THEN 0 ELSE IF x > 2 THEN 2 ELSE x

\* C14: every similarity search returns is within [0, 1]: it is the dot
\* product s of the normalized query vector and the vector stored at the chunk's
\* position, remapped as (s + 1) / 2 and clamped to [0, 1], also when the stored
\* vector is not of unit length.
C14_SimilarityWithinUnitInterval ==
    (last.op = "search" /\ last.outcome = "returned") =>
        \A k \in 1..Len(last.results) :
            LET r == last.results[k]
            IN  /\ 0 <= r.score /\ r.score <= 2
                /\ \E i \in 1..Min(Len(last.pre._embeddings), Len(last.chunks)) :
                       /\ r.chunk = last.chunks[i]
                       /\ r.score = Clamped(Remapped(i))

\* a search returned 1.0 for a stored vector of length 3, for which
\* (s + 1) / 2 is 2.0
C14_Witness ==
    /\ last.op = "search" /\ last.outcome = "returned"
    /\ Len(last.results) >= 1
    /\ last.results[1].score = 2
    /\ \E i \in 1..Min(Len(last.pre._embeddings), Len(last.chunks)) :
           /\ last.results[1].chunk = last.chunks[i]
           /\ Remapped(i) = 4

\* the hashes that are keys of the JSON object in the file
HashesIn(file) ==
    IF file.kind = "object" THEN {file.entries[k][1] : k \in 1..Len(file.entries)} ELSE {}

\* the file holds hash h with vector v
Holds(file, h, v) ==
    /\ file.kind = "object"
    /\ \E k \in 1..Len(file.entries) : file.entries[k] = <<h, v>>

\* C27: with a cache directory, every entry of the cache file before a
\* build_index call is in the file after it with the same vector, and a call
\* that returns adds one entry for each content hash of its chunks that the
\* file did not hold, and no other.
C27_CacheOnlyGrows ==
    (last.op = "build_index" /\ cache_dir # None) =>
        /\ \A k \in 1..Len(last.pre_file.entries) :
               Holds(cache_file, last.pre_file.entries[k][1], last.pre_file.entries[k][2])
        /\ (last.outcome = "returned" /\ last.chunks # <<>>) =>
               /\ HashesIn(cache_file) =
                      HashesIn(last.pre_file)
                          \cup {ContentHash(last.chunks[i].content) : i \in 1..Len(last.chunks)}
               /\ Cardinality(HashesIn(cache_file)) = Len(cache_file.entries)

\* the call is one that needs the model: a build_index over a non-empty list,
\* or a search with a non-empty list on an index that holds vectors
NeedsModel ==
    \/ last.op = "build_index" /\ last.chunks # <<>>
    \/ last.op = "search" /\ last.pre._embeddings # <<>> /\ last.chunks # <<>>

\* C28: is_available answers without loading the model and leaves the index
\* as it was; the model slot, once filled, stays filled; it is filled only by
\* a build_index over a non-empty list or a search over a non-empty built
\* index, with the backend present; with the backend absent those calls raise
\* and load nothing.
C28_ModelLoadedOnlyOnUse ==
    last.op # "none" =>
        LET before == last.pre
            after == index[last.idx]
        IN  /\ last.op = "is_available" =>
                   /\ after = before
                   /\ cache_file = last.pre_file
                   /\ last.outcome = "returned"
                   /\ last.results = <<available>>
            /\ before._model # None => after._model = before._model
            /\ (before._model = None /\ after._model # None) => (available /\ NeedsModel)
            /\ (~available /\ NeedsModel) =>
                   (last.outcome = "raised" /\ after._model = before._model)

\* is_available answered True on an index that had made no call, and the
\* model slot is still empty
C28_Witness ==
    /\ last.op = "is_available"
    /\ last.results = <<TRUE>>
    /\ last.pre = NewIndex
    /\ index[last.idx]._model = None

\* _embeddings and _chunk_hashes of an index run in parallel
Aligned(obj) ==
    /\ Len(obj._embeddings) = Len(obj._chunk_hashes)
    /\ \A k \in 1..Len(obj._embeddings) : obj._embeddings[k][1] = obj._chunk_hashes[k]

\* the vector the cache holds for a content at the end of the call: the one
\* read from the file, or the normalized embedding made by the call
CacheEntry(text) ==
    IF DictHas(CacheAtStart, ContentHash(text))
    THEN DictGet(CacheAtStart, ContentHash(text))
    ELSE L2Normalize(Encode(text))

\* C29: after every sequence of build_index and search calls, raising ones
\* included, _embeddings and _chunk_hashes of every index have the same length
\* and carry the same hash at every position; after a build_index that
\* returned, both have len(chunks) entries, the i-th hash is the content hash
\* of the i-th chunk and the i-th vector is the cache entry of that hash.
C29_IndexIsPositionAligned ==
    /\ \A i \in IndexNames : Aligned(index[i])
    /\ (last.op = "build_index" /\ last.outcome = "returned") =>
           LET obj == index[last.idx]
           IN  /\ Len(obj._embeddings) = Len(last.chunks)
               /\ Len(obj._chunk_hashes) = Len(last.chunks)
               /\ \A k \in 1..Len(last.chunks) :
                      LET text == last.chunks[k].content
                      IN  /\ obj._chunk_hashes[k] = ContentHash(text)
                          /\ obj._embeddings[k] = <<ContentHash(text), CacheEntry(text)>>
                          /\ cache_dir # None =>
                                 Holds(cache_file, ContentHash(text), CacheEntry(text))

\* a build_index over two chunks raised in _save_cache, after it had filled
\* both lists
C29_Witness ==
    /\ last.op = "build_index" /\ last.outcome = "raised" /\ last.error = "OSError"
    /\ Len(last.chunks) = 2
    /\ Len(index[last.idx]._embeddings) = 2
    /\ Len(index[last.idx]._chunk_hashes) = 2

\* the ways to take the results of the call from distinct positions of its
\* chunk list, each with the similarity of its position
Selections ==
    {f \in [1..Len(last.results) -> 1..Len(last.chunks)] :
        /\ \A j, k \in 1..Len(last.results) : j # k => f[j] # f[k]
        /\ \A k \in 1..Len(last.results) :
               /\ last.results[k].chunk = last.chunks[f[k]]
               /\ last.results[k].score = Clamped(Remapped(f[k]))}

\* C23: a search on an index built over the same chunk list returns the first
\* top_k of all (chunk, similarity) pairs in descending order: it has
\* min(top_k, len(chunks)) entries, their scores do not increase, and no chunk
\* left out has a greater similarity than a returned one.
C23_SearchReturnsTheTopK ==
    (/\ last.op = "search" /\ last.outcome = "returned"
     /\ last.pre.built_over = last.chunks) =>
        /\ Len(last.pre._embeddings) = Len(last.chunks)
        /\ Len(last.results) = Min(last.top_k, Len(last.chunks))
        /\ \A j, k \in 1..Len(last.results) :
               j < k => last.results[j].score >= last.results[k].score
        /\ \E f \in Selections :
               \A i \in 1..Len(last.chunks) :
                   (\A k \in 1..Len(last.results) : f[k] # i) =>
                       \A k \in 1..Len(last.results) :
                           Clamped(Remapped(i)) <= last.results[k].score

\* a search with top_k 1 over two chunks returned the second and left out the
\* first, which is less similar
C23_Witness ==
    /\ last.op = "search" /\ last.outcome = "returned"
    /\ last.pre.built_over = last.chunks
    /\ Len(last.chunks) = 2 /\ last.top_k = 1
    /\ Len(last.results) = 1
    /\ last.results[1].chunk = last.chunks[2]
    /\ Clamped(Remapped(1)) < Clamped(Remapped(2))

\* session i has been through _load_cache
HasRead(i) == session[i].pc \in {"open", "write", "done", "raised"}

\* the file is a complete JSON object that was there at the start or that
\* some session wrote
CompleteAndWritten(file) ==
    \/ file \in SessionInitialFiles
    \/ \E j \in IndexNames :
           session[j].pc \in {"write", "done"} /\ file = JsonDump(session[j].cache)

\* C17: when sessions build over the same cache file with their load and
\* write steps interleaved, the file every session reads is a complete JSON
\* object that some session wrote (or the file they started with).
C17_ReadsSeeCompleteFile ==
    \A i \in IndexNames : HasRead(i) => CompleteAndWritten(session[i].seen)

----------------------------------------------------------------------------
(* Properties of the hybrid search *)

\* the call had no index, or one that is unavailable or holds no vectors
NoUsableIndex ==
    \/ search_args.semantic_index = None
    \/ ~available
    \/ index[search_args.semantic_index]._embeddings = <<>>

LexicalScore(j) == CalculateRelevance(search_args.chunks[j], search_args.query)

MaxLexicalScore ==
    CHOOSE m \in {0} \cup {LexicalScore(j) : j \in 1..Len(search_args.chunks)} :
        \A j \in 1..Len(search_args.chunks) : LexicalScore(j) <= m

\* the snippet r was made from the chunk at its position in the list
SnippetOfItsChunk(r) ==
    /\ r.pos \in 1..Len(search_args.chunks)
    /\ LET c == search_args.chunks[r.pos]
       IN  /\ r.full_chunk = c.content
           /\ r.header_path = c.header_path
           /\ r.file_path = c.file_path
           /\ r.start_char = c.start_char
           /\ r.end_char = c.end_char

\* C10: when search_hybrid is given no semantic index, or one that is
\* unavailable or has an empty built index, the score of every returned result
\* is its chunk's lexical score divided by the largest lexical score over all
\* chunks of the list (0 when that maximum is 0), whatever vector_weight and
\* text_weight are.
C10_FallbackIsNormalizedLexical ==
    (search_pc = "done" /\ NoUsableIndex) =>
        \A k \in 1..Len(snippets) :
            LET r == snippets[k]
            IN  /\ SnippetOfItsChunk(r)
                /\ r.match_score.den > 0
                /\ IF MaxLexicalScore = 0
                   THEN r.match_score.num = 0
                   ELSE r.match_score.num * MaxLexicalScore
                            = LexicalScore(r.pos) * r.match_score.den

\* an unbuilt index is passed with text_weight 0, and two results come back,
\* the second with a score strictly between 0 and 1
C10_Witness ==
    /\ search_pc = "done"
    /\ NoUsableIndex
    /\ search_args.semantic_index # None
    /\ search_args.text_weight = 0
    /\ Len(snippets) = 2
    /\ snippets[2].match_score.num > 0
    /\ snippets[2].match_score.num < snippets[2].match_score.den

\* C11: search_hybrid returns at least as many results as search_chunks
\* called with the same chunks, query and max_results, whatever the semantic
\* index is.
C11_HybridFindsAtLeastKeyword ==
    (search_pc = "done" /\ keyword_pc = "done") => Len(snippets) >= Len(keyword_snippets)

\* both searches ran against a built index, the keyword search found
\* something, and the hybrid search found more
C11_Witness ==
    /\ search_pc = "done"
    /\ keyword_pc = "done"
    /\ ~NoUsableIndex
    /\ Len(keyword_snippets) >= 1
    /\ Len(snippets) > Len(keyword_snippets)

\* semantic_index.search(query, chunks, top_k) on the index of the call
DirectSearch(top_k) ==
    SearchCall(index[search_args.semantic_index], available, cache_file,
               search_args.query, search_args.chunks, top_k)

\* C15: with an empty chunk list every strategy returns an empty list and
\* raises nothing: search_chunks, search_hybrid with no index, an unbuilt index
\* or a built one (whose search it then calls with top_k = 0), and
\* SemanticIndex.search itself.
C15_EmptyChunkListFindsNothing ==
    search_args.chunks = <<>> =>
        /\ keyword_pc = "done" => keyword_snippets = <<>>
        /\ search_pc = "done" => snippets = <<>>
        /\ (search_pc = "done" /\ search_args.semantic_index # None) =>
               \A top_k \in {0} \cup MaxResults :
                   /\ DirectSearch(top_k).outcome = "returned"
                   /\ DirectSearch(top_k).results = <<>>

\* both searches ran over an empty list, the hybrid one with a built index
C15_Witness ==
    /\ search_args.chunks = <<>>
    /\ keyword_pc = "done"
    /\ search_pc = "done"
    /\ search_args.semantic_index # None
    /\ available
    /\ Len(index[search_args.semantic_index]._embeddings) = 2

\* the semantic scores of the call by position: none without a usable index
SemanticScoresOfCall ==
    IF NoUsableIndex THEN <<>>
    ELSE ChunkToScore(DirectSearch(Len(search_args.chunks)).results, search_args.chunks)

\* the combined score of every chunk of the call, by position
CombinedScores ==
    LET sem == SemanticScoresOfCall
        kw == KeywordScores(search_args.chunks, search_args.query)
    IN  [i \in 1..Len(search_args.chunks) |->
            Combined(DOMAIN sem # {},
                     IF i \in DOMAIN sem THEN sem[i] ELSE Frac(0, 1),
                     kw[i], search_args.vector_weight, search_args.text_weight)]

ContainsQuery(i) ==
    Contains(Lower(search_args.chunks[i].content), Lower(search_args.query))

\* the positions whose combined score exceeds 0.01 or whose content contains
\* the query
Qualifying ==
    LET combined == CombinedScores
    IN  {i \in 1..Len(search_args.chunks) :
            combined[i].num * 100 > combined[i].den \/ ContainsQuery(i)}

ResultPositions == {snippets[k].pos : k \in 1..Len(snippets)}

\* C19: before truncation the result set of search_hybrid is exactly the
\* chunks whose combined score exceeds 0.01 or whose content contains the query
\* without regard to case: the results are distinct qualifying chunks, all of
\* them when max_results allows, and max_results of them otherwise.
C19_ResultsAreTheQualifyingChunks ==
    search_pc = "done" =>
        LET qualifying == Qualifying
        IN  /\ ResultPositions \subseteq qualifying
            /\ Cardinality(ResultPositions) = Len(snippets)
            /\ Len(snippets) = Min(search_args.max_results, Cardinality(qualifying))
            /\ \A k \in 1..Len(snippets) : SnippetOfItsChunk(snippets[k])

\* with a usable index and nothing truncated, one chunk is returned for
\* containing the query although its combined score is 0, and another chunk,
\* which scores 0 and does not contain the query, is left out
C19_Witness ==
    /\ search_pc = "done"
    /\ ~NoUsableIndex
    /\ Len(search_args.chunks) = 2
    /\ search_args.max_results = DefaultMaxResults
    /\ Len(snippets) = 1
    /\ snippets[1].match_score.num = 0
    /\ ContainsQuery(snippets[1].pos)

\* C24: search_hybrid returns the qualifying chunks by combined score, best
\* first, cut to max_results: at most max_results entries, scores that do not
\* increase, and no qualifying chunk left out has a higher combined score than
\* a returned one.
C24_HybridReturnsTheBestQualifying ==
    search_pc = "done" =>
        /\ Len(snippets) <= search_args.max_results
        /\ \A j, k \in 1..Len(snippets) :
               j < k => FracGeq(snippets[j].match_score, snippets[k].match_score)
        /\ \/ ResultPositions = 1..Len(search_args.chunks)
           \/ LET combined == CombinedScores
              IN  \A i \in 1..Len(search_args.chunks) :
                      \/ i \in ResultPositions
                      \/ ~(combined[i].num * 100 > combined[i].den \/ ContainsQuery(i))
                      \/ \A k \in 1..Len(snippets) :
                             ~FracGt(combined[i], snippets[k].match_score)

\* with max_results 1 and a usable index the second of two chunks is returned
\* and the first, which contains the query but scores less, is left out
C24_Witness ==
    /\ search_pc = "done"
    /\ ~NoUsableIndex
    /\ Len(search_args.chunks) = 2
    /\ search_args.max_results = 1
    /\ Len(snippets) = 1
    /\ snippets[1].pos = 2
    /\ ContainsQuery(1)
    /\ FracGt(snippets[1].match_score, CombinedScores[1])

\* the index of the call is available and was built over the very list that
\* is searched, a list of distinct objects
BuiltOverSameDistinctChunks ==
    /\ search_args.semantic_index # None
    /\ available
    /\ search_args.chunks # <<>>
    /\ index[search_args.semantic_index].built_over = search_args.chunks
    /\ \A i, j \in 1..Len(search_args.chunks) :
           search_args.chunks[i].oid = search_args.chunks[j].oid => i = j

\* the similarity of the query with the vector stored at position i, in halves
SimilarityAt(i) ==
    LET s == Dot(L2Normalize(Encode(search_args.query)),
                 index[search_args.semantic_index]._embeddings[i][2]) + 1
    IN  Clamped(s)

\* vector_weight * sem_i + text_weight * kw_i as a fraction: the weights are
\* tenths, sem_i is halves, kw_i is LexicalScore(i) / MaxLexicalScore
WeightedSum(i) ==
    LET vw == search_args.vector_weight
        tw == search_args.text_weight
        mx == MaxLexicalScore
    IN  IF mx = 0
        THEN Frac(vw * SimilarityAt(i), 20)
        ELSE Frac(vw * SimilarityAt(i) * mx + 2 * tw * LexicalScore(i), 20 * mx)

\* C20: when search_hybrid is given an available index built over the same
\* list of distinct chunk objects, the result for the chunk at position i scores
\* vector_weight * sem_i + text_weight * kw_i, kw_i the max-normalized lexical
\* score and sem_i the similarity from the vector at position i; chunks with
\* the same text at different positions are separate results, each with its own
\* score.
C20_HybridScoreIsWeightedSum ==
    (search_pc = "done" /\ BuiltOverSameDistinctChunks) =>
        /\ Cardinality(ResultPositions) = Len(snippets)
        /\ \A k \in 1..Len(snippets) :
               LET r == snippets[k]
                   expected == WeightedSum(r.pos)
               IN  /\ SnippetOfItsChunk(r)
                   /\ r.match_score.den > 0
                   /\ r.match_score.num * expected.den = expected.num * r.match_score.den

\* two objects with the same text, searched with the index built over them,
\* come back as two results with different scores
C20_Witness ==
    /\ search_pc = "done"
    /\ BuiltOverSameDistinctChunks
    /\ Len(snippets) = 2
    /\ snippets[1].full_chunk = snippets[2].full_chunk
    /\ snippets[1].pos # snippets[2].pos
    /\ ~FracEq(snippets[1].match_score, snippets[2].match_score)
    /\ search_args.vector_weight = DefaultVectorWeight

----------------------------------------------------------------------------
(* Properties of the serving session *)

\* C18: across any sequence of tool calls of a serving session, scanner.scan()
\* runs at most once, whatever the folder contains, and each file is chunked at
\* most once.
C18_ScanAndChunkAtMostOnce ==
    /\ server.scans <= 1
    /\ \A f \in DOMAIN server.chunked : server.chunked[f] <= 1

----------------------------------------------------------------------------
(* Properties of the lexical scoring *)

\* content.lower().count(query.lower()) for a chunk of the scoring call
Occurrences(chunk) ==
    CountOccurrences(Lower(chunk.content), Lower(relevance_args.query))

\* C13: for two chunks with the same header_path and start_char, the one in
\* whose content the query occurs at least as often (occurrences counted without
\* regard to case, left to right without overlap) scores at least as much; and
\* no score is negative.
C13_RelevanceMonotoneInOccurrences ==
    relevance_pc = "done" =>
        /\ relevance.chunk >= 0
        /\ relevance.other >= 0
        /\ Occurrences(relevance_args.chunk) <= Occurrences(relevance_args.other)
               => relevance.chunk <= relevance.other

\* the query occurs once in one chunk and twice, in upper case, in the other,
\* which scores strictly more
C13_Witness ==
    /\ relevance_pc = "done"
    /\ relevance_args.query = <<"a">>
    /\ relevance_args.chunk.content = <<"a">>
    /\ relevance_args.other.content = <<"A", "A">>
    /\ relevance.chunk < relevance.other

\* the places where p starts in s
Starts(s, p) == {i \in 1..(Len(s) - Len(p) + 1) : SubSeq(s, i, i + Len(p) - 1) = p}

\* the largest number of occurrences of p in s no two of which overlap
\* (str.count gives len(s) + 1 for the empty p)
DisjointOccurrences(s, p) ==
    IF p = <<>> THEN Len(s) + 1
    ELSE LET disjoint == {S \in SUBSET Starts(s, p) :
                             \A i, j \in S : i < j => i + Len(p) <= j}
         IN  CHOOSE n \in 0..Len(s) :
                 /\ \E S \in disjoint : Cardinality(S) = n
                 /\ \A S \in disjoint : Cardinality(S) <= n

\* the whitespace-separated words of s, as <<first, last>> positions
WordSpans(s) ==
    {w \in (1..Len(s)) \X (1..Len(s)) :
        /\ w[1] <= w[2]
        /\ \A i \in w[1]..w[2] : s[i] \notin Whitespace
        /\ w[1] = 1 \/ s[w[1] - 1] \in Whitespace
        /\ w[2] = Len(s) \/ s[w[2] + 1] \in Whitespace}

\* the words of the query longer than 3 characters that occur in the header
LongWordsInHeader(query_lower, header_lower) ==
    {w \in WordSpans(query_lower) :
        /\ w[2] - w[1] + 1 > 3
        /\ Contains(header_lower, SubSeq(query_lower, w[1], w[2]))}

\* the score the rule gives, in tenths
RuleScore(chunk, query) ==
    LET query_lower == Lower(query)
        header_lower == Lower(chunk.header_path)
    IN  (IF Contains(header_lower, query_lower) THEN 20
         ELSE 10 * Cardinality(LongWordsInHeader(query_lower, header_lower)))
        + DisjointOccurrences(Lower(chunk.content), query_lower)
        + (IF chunk.start_char < 1000 THEN 5 ELSE 0)

----------------------------------------------------------------------------
(* Properties of the keyword search *)

\* the positions of the chunks whose content contains the query
KeywordMatching ==
    {i \in 1..Len(search_args.chunks) :
        Contains(Lower(search_args.chunks[i].content), Lower(search_args.query))}

\* the score of the chunk at position i, in tenths
KeywordScoreAt(i) == RuleScore(search_args.chunks[i], search_args.query)

HeaderHasQuery(i) ==
    Contains(Lower(search_args.chunks[i].header_path), Lower(search_args.query))

HeaderHasLongWord(i) ==
    LongWordsInHeader(Lower(search_args.query),
                      Lower(search_args.chunks[i].header_path)) /= {}

OccurrencesAt(i) ==
    DisjointOccurrences(Lower(search_args.chunks[i].content), Lower(search_args.query))

\* the result at place j is the snippet of the chunk at its position
KeywordResultOfItsChunk(j) ==
    LET r == keyword_snippets[j]
        chunk == search_args.chunks[r.pos]
    IN  /\ r.pos \in KeywordMatching
        /\ FracEq(r.match_score, Frac(KeywordScoreAt(r.pos), 10))
        /\ r.file_path = chunk.file_path
        /\ r.header_path = chunk.header_path
        /\ r.full_chunk = chunk.content
        /\ r.start_char = chunk.start_char
        /\ r.end_char = chunk.end_char

\* the matching chunks, scored, best first, cut to max_results
KeywordResultsAreTheBestMatches ==
    LET returned == {keyword_snippets[j].pos : j \in 1..Len(keyword_snippets)}
    IN  /\ Len(keyword_snippets) =
               Min(search_args.max_results, Cardinality(KeywordMatching))
        /\ Cardinality(returned) = Len(keyword_snippets)
        /\ \A j \in 1..Len(keyword_snippets) : KeywordResultOfItsChunk(j)
        /\ \A j, k \in 1..Len(keyword_snippets) :
               j < k => KeywordScoreAt(keyword_snippets[j].pos)
                            >= KeywordScoreAt(keyword_snippets[k].pos)
        /\ \A i \in KeywordMatching \ returned : \A j \in 1..Len(keyword_snippets) :
               KeywordScoreAt(i) <= KeywordScoreAt(keyword_snippets[j].pos)

\* wherever the chunk at b is returned, the chunk at a is returned before it
RankedBefore(a, b) ==
    \A k \in 1..Len(keyword_snippets) :
        keyword_snippets[k].pos = b =>
            \E j \in 1..(k - 1) : keyword_snippets[j].pos = a

\* C22 (as stated): search_chunks returns exactly the chunks whose content
\* contains the query, case ignored, each scored by calculate_relevance, best
\* first, cut to max_results; and a matching chunk whose header_path contains
\* the query scores at least 2.0 and comes before every matching chunk whose
\* header_path does not contain the query and that has fewer than 10 more
\* occurrences of the query in its content.
C22_HeaderMatchOutranksEveryOther ==
    keyword_pc = "done" =>
        /\ KeywordResultsAreTheBestMatches
        /\ \A a, b \in KeywordMatching :
               (/\ HeaderHasQuery(a)
                /\ ~HeaderHasQuery(b)
                /\ OccurrencesAt(b) < OccurrencesAt(a) + 10)
               => KeywordScoreAt(a) >= 20 /\ RankedBefore(a, b)

\* C22 (amended): the same, where the chunk that is outranked has no header
\* bonus at all: its header_path contains neither the query nor any word of
\* the query longer than 3 characters.
C22_HeaderMatchOutranksNoHeaderBonus ==
    keyword_pc = "done" =>
        /\ KeywordResultsAreTheBestMatches
        /\ \A a, b \in KeywordMatching :
               (/\ HeaderHasQuery(a)
                /\ ~HeaderHasQuery(b) /\ ~HeaderHasLongWord(b)
                /\ OccurrencesAt(b) < OccurrencesAt(a) + 10)
               => KeywordScoreAt(a) >= 20 /\ RankedBefore(a, b)

\* a chunk past the first 1000 characters whose header holds the query comes
\* before an early chunk without a header bonus, listed first
C22_Witness ==
    /\ keyword_pc = "done"
    /\ Len(keyword_snippets) = 2
    /\ keyword_snippets[1].pos = 2
    /\ keyword_snippets[2].pos = 1
    /\ HeaderHasQuery(2) /\ search_args.chunks[2].start_char >= EarlyChars
    /\ ~HeaderHasQuery(1) /\ ~HeaderHasLongWord(1)
    /\ search_args.chunks[1].start_char < EarlyChars

----------------------------------------------------------------------------
(* Properties of the snippets *)

\* the lines of the chunk handed to extract_snippet
ChunkLines == SplitStr(snippet_args.chunk.content, <<NL>>)

\* the lines of the chunk that contain the query, case ignored
Hits ==
    {i \in 1..Len(ChunkLines) :
        Contains(Lower(ChunkLines[i]), Lower(snippet_args.query))}

FirstHit == CHOOSE m \in Hits : \A i \in Hits : m <= i

\* the window of up to 2 lines around the first hit
WindowFirst == IF FirstHit > 2 THEN FirstHit - 2 ELSE 1
WindowLast == IF FirstHit + 2 < Len(ChunkLines) THEN FirstHit + 2 ELSE Len(ChunkLines)

CutBefore == WindowFirst > 1
CutAfter == WindowLast < Len(ChunkLines)

\* C25: extract_snippet returns the first line of the chunk that contains the
\* query, case ignored, with up to 2 lines before and up to 2 after it, with
\* a '...' line before exactly when lines before the window were cut and a
\* '...' line after exactly when lines after it were cut; when no line
\* contains the query it returns the first min(5, n) lines followed by '...'.
C25_SnippetIsTheWindow ==
    snippet_pc = "done" =>
        IF Hits = {}
        THEN LET n == Len(ChunkLines)
                 shown == IF n < 5 THEN n ELSE 5
             IN  snippet = JoinStr(SubSeq(ChunkLines, 1, shown), <<NL>>) \o <<".", ".", ".">>
        ELSE LET out == SplitStr(snippet, <<NL>>)
                 lead == IF CutBefore THEN 1 ELSE 0
                 trail == IF CutAfter THEN 1 ELSE 0
             IN  /\ Len(out) = lead + (WindowLast - WindowFirst + 1) + trail
                 /\ SubSeq(out, 1 + lead, Len(out) - trail)
                        = SubSeq(ChunkLines, WindowFirst, WindowLast)
                 /\ CutBefore => out[1] = <<".", ".", ".">>
                 /\ CutAfter => out[Len(out)] = <<".", ".", ".">>

\* the first hit is the fourth of seven lines: five lines are shown between
\* two '...' lines
C25_Witness ==
    /\ snippet_pc = "done"
    /\ Len(ChunkLines) = 7
    /\ Hits # {} /\ FirstHit = 4
    /\ Len(SplitStr(snippet, <<NL>>)) = 7
    /\ Take(snippet, 4) = <<".", ".", ".", NL>>

\* C26: the snippet of every result of search_chunks contains the query, case
\* ignored, also when the query contains a line break.
C26_SnippetContainsQuery ==
    keyword_pc = "done" =>
        \A k \in 1..Len(keyword_snippets) :
            Contains(Lower(keyword_snippets[k].snippet), Lower(search_args.query))

====
